---- MODULE Spec2Model ----
(***************************************************************************)
(* Background-job orchestration of the CBP AI service: the job record      *)
(* store (role mappings, course recommendations), the HTTP handlers that   *)
(* dispatch, read and delete jobs, and the detached background tasks that  *)
(* run the LLM pipelines and write the terminal status.                    *)
(*                                                                         *)
(* Handlers and tasks are coroutines on one event loop: every step below   *)
(* is the code between two awaits, with the store access at its await as   *)
(* the step's single read or write.                                        *)
(***************************************************************************)
EXTENDS Integers, Sequences, FiniteSets, TLC

VARIABLES
    scope,          \* the workload of this run: which endpoint family its clients call
    roleMappings,   \* table role_mappings: a set of rows
    tasks,          \* process_role_mapping_task instances added with add_task
    recs,           \* table recommended_courses
    suggested,      \* table suggested_courses
    crTasks,        \* process_recommendation_task instances
    docs,           \* table documents
    metas,          \* table meta_summaries
    storage,        \* file ids whose bytes are in the storage service
    docTasks,       \* _run_document_summary instances
    metaTasks,      \* _run_meta_summary instances
    scds,           \* table state_center_data
    scdTasks,       \* process_documents_background instances
    nextId,         \* supply of fresh uuid4 values
    req,            \* per client: the handler it is inside and that handler's locals
    lastResp,       \* the HTTP response the step just taken sent, NoResp if none
    ended           \* the background task the step just taken ended, NoTask if none

crVars == <<recs, suggested, crTasks>>
bgVars == <<metaTasks, scds, scdTasks>>
docVars == <<docs, metas, storage, docTasks>>
vars == <<scope, roleMappings, tasks, crVars, docVars, bgVars, nextId, req, lastResp, ended>>

(***************************************************************************)
(* Bounds                                                                  *)
(***************************************************************************)
MaxJobs == 2        \* jobs dispatched in one run
MaxItems == 2       \* longest list one FRAC batch call returns
MaxBatches == 3     \* most Pass-2 batches of one job

Clients == {"c1", "c2"}
Keys == {"K"}       \* owner keys (user, state_center_id, department_id)

(***************************************************************************)
(* Values                                                                  *)
(***************************************************************************)
IN_PROGRESS == "IN_PROGRESS"
COMPLETED == "COMPLETED"
FAILED == "FAILED"
Null == "null"
NoSort == <<>>                      \* sort_order IS NULL
Generating == 0                     \* designation_name "Generating..."
NoMappingsMsg == "AI Service returned no role mappings."

FRAC_BATCH_SIZE == 30

\* Workloads. "dispatch": two clients submit generate requests for one owner key
\* at once. "manage": one client generates, reads and deletes role mappings.
\* "pipe": one job whose Pass 1 yields up to MaxBatches batches.
RmScopes == {"dispatch", "manage", "pipe"}

\* "cr": one client generates, reads and deletes course recommendations, the
\* adapters answering or the relevance call raising. "crpipe": one
\* recommendation job with every adapter outcome.
CrScopes == {"cr", "crpipe"}

\* "doc": one client triggers, resets and deletes document summaries. "meta":
\* one client also requests meta-summaries over the stored documents.
DocScopes == {"doc", "meta"}

\* The clients that send requests under the workload.
Callers == IF scope \in {"dispatch"} THEN Clients ELSE {"c1"}

\* Pass-1 designation counts the LLM is given to return: none, enough to fill
\* 1..MaxBatches batches, or one batch and a half, under the pipeline workload;
\* none or one otherwise.
AllP1Counts ==
    {0, FRAC_BATCH_SIZE + FRAC_BATCH_SIZE \div 2}
        \cup {(j - 1) * FRAC_BATCH_SIZE + 1 : j \in 1..MaxBatches}

P1Counts == IF scope = "pipe" THEN AllP1Counts ELSE {0, 1}

\* One job under the pipeline workloads; one document job and one meta-summary
\* job under the "meta" workload; two uploads under the "scd" workload; MaxJobs
\* under the others.
JobsAllowed == IF scope \in {"pipe", "crpipe"} THEN 1
               ELSE IF scope \in {"meta", "scd"} THEN 2
               ELSE MaxJobs

\* Every id a run can draw: one per placeholder, one per sibling row.
Ids == 1..(MaxJobs + MaxBatches * MaxItems)

\* found: what the handler's lookup returned; snap: the rows it read or deleted.
Idle == [op |-> "idle", pc |-> "idle", key |-> "-", id |-> 0, course |-> "-",
         found |-> "-", snap |-> {}]
NoResp == [op |-> "-", code |-> 0, status |-> "-", body |-> {}, found |-> "-"]


(***************************************************************************)
(* Store queries on role_mappings                                          *)
(***************************************************************************)
KeyRecords(k) == {r \in roleMappings : r.key = k}

RowById(id) == {r \in roleMappings : r.id = id}

\* ORDER BY sort_order DESC: PostgreSQL puts NULL first, then larger values.
SortsBeforeDesc(a, b) ==
    \/ a.sort = NoSort /\ b.sort # NoSort
    \/ a.sort # NoSort /\ b.sort # NoSort /\ a.sort[1] > b.sort[1]

\* The rows LIMIT 1 may return: any row no other row of the key sorts before.
get_all_mapping(k) ==
    {r \in KeyRecords(k) : \A o \in KeyRecords(k) : ~SortsBeforeDesc(o, r)}

get_all_completed_mapping(k) == {r \in KeyRecords(k) : r.st = COMPLETED}

\* Fault variant of get_in_progress_mapping: the status check is left out of
\* the delete handler, the query result is always empty.
get_in_progress_mapping_unchecked(k) == {r \in KeyRecords(k) : FALSE}

get_in_progress_mapping(k) == {r \in KeyRecords(k) : r.st = IN_PROGRESS}

\* Fault variant of delete_existing_mappings: the DELETE also filters on
\* status = 'FAILED'.
delete_failed_mappings(k) == roleMappings \ {r \in KeyRecords(k) : r.st = FAILED}

delete_existing_mappings(k) == roleMappings \ KeyRecords(k)

delete_by_id(id) == roleMappings \ RowById(id)

\* recommended_courses and suggested_courses reference role_mappings.id with
\* ON DELETE CASCADE: their rows go with the role mapping's.
Cascade ==
    /\ recs' = {r \in recs : \E m \in roleMappings' : m.id = r.rm}
    /\ suggested' = {g \in suggested : \E m \in roleMappings' : m.id = g.rm}

\* UPDATE ... WHERE id = :id ... RETURNING; scalar_one() raises when no row matched.
UpdateRow(id, st, desig, sort, err) ==
    {IF r.id = id THEN [r EXCEPT !.st = st, !.desig = desig, !.sort = sort, !.err = err]
                  ELSE r : r \in roleMappings}

\* Fault variant of UpdateStatus: the update leaves error_message out.
UpdateStatusWithoutMessage(id, st, err) ==
    {IF r.id = id THEN [r EXCEPT !.st = st] ELSE r : r \in roleMappings}

UpdateStatus(id, st, err) ==
    {IF r.id = id THEN [r EXCEPT !.st = st, !.err = err] ELSE r : r \in roleMappings}

Placeholder(id, k) ==
    [id |-> id, key |-> k, st |-> IN_PROGRESS, desig |-> Generating,
     sort |-> NoSort, err |-> Null]

NewTask(id, k) ==
    [id |-> id, key |-> k, pc |-> "start", p1 |-> "none", n |-> 0,
     bres |-> <<>>, result |-> <<>>, calls |-> 0, made |-> {}, err |-> Null]

NoTask == [NewTask(0, "-") EXCEPT !.pc = "none"]

\* A handler step that sends no response.
Silent == lastResp' = NoResp /\ ended' = NoTask

Respond(c, op, code, status, body) ==
    /\ lastResp' = [op |-> op, code |-> code, status |-> status, body |-> body,
                    found |-> req[c].found]
    /\ ended' = NoTask

(***************************************************************************)
(* POST /v3/role-mapping/generate                                          *)
(***************************************************************************)
\* The lookup finds no row: on to the placeholder.
RmGenerateNone(c, k) ==
    /\ scope \in RmScopes
    /\ c \in Callers /\ req[c] = Idle
    /\ get_all_mapping(k) = {}
    /\ req' = [req EXCEPT ![c] = [Idle EXCEPT !.op = "rm_generate", !.pc = "create", !.key = k,
                                               !.found = "none"]]
    /\ Silent
    /\ UNCHANGED <<scope, bgVars, roleMappings, tasks, crVars, docVars, nextId>>

\* The lookup finds a row IN_PROGRESS: answered at once.
RmGenerateInProgress(c, k) ==
    /\ scope \in RmScopes
    /\ c \in Callers /\ req[c] = Idle
    /\ \E e \in get_all_mapping(k) : e.st = IN_PROGRESS
    /\ Respond(c, "rm_generate", 202, IN_PROGRESS, {})
    /\ UNCHANGED <<scope, bgVars, roleMappings, tasks, crVars, docVars, nextId, req>>

\* The lookup finds a row COMPLETED: the completed rows are read next.
RmGenerateFoundCompleted(c, k) ==
    /\ scope \in RmScopes
    /\ c \in Callers /\ req[c] = Idle
    /\ \E e \in get_all_mapping(k) : e.st = COMPLETED
    /\ req' = [req EXCEPT ![c] = [Idle EXCEPT !.op = "rm_generate", !.pc = "read_completed",
                                               !.key = k, !.found = COMPLETED]]
    /\ Silent
    /\ UNCHANGED <<scope, bgVars, roleMappings, tasks, crVars, docVars, nextId>>

RmGenerateReadCompleted(c) ==
    /\ scope \in RmScopes
    /\ req[c].op = "rm_generate" /\ req[c].pc = "read_completed"
    /\ Respond(c, "rm_generate", 201, COMPLETED, get_all_completed_mapping(req[c].key))
    /\ req' = [req EXCEPT ![c] = Idle]
    /\ UNCHANGED <<scope, bgVars, roleMappings, tasks, crVars, docVars, nextId>>

\* The lookup finds a row FAILED: the key's rows are deleted next.
RmGenerateFoundFailed(c, k) ==
    /\ scope \in RmScopes
    /\ c \in Callers /\ req[c] = Idle
    /\ \E e \in get_all_mapping(k) : e.st = FAILED
    /\ req' = [req EXCEPT ![c] = [Idle EXCEPT !.op = "rm_generate", !.pc = "cleanup", !.key = k,
                                               !.found = FAILED]]
    /\ Silent
    /\ UNCHANGED <<scope, bgVars, roleMappings, tasks, crVars, docVars, nextId>>

RmGenerateCleanup(c) ==
    /\ scope \in RmScopes
    /\ req[c].op = "rm_generate" /\ req[c].pc = "cleanup"
    /\ roleMappings' = delete_existing_mappings(req[c].key)
    /\ Cascade
    /\ req' = [req EXCEPT ![c].pc = "create", ![c].snap = KeyRecords(req[c].key)]
    /\ Silent
    /\ UNCHANGED <<scope, bgVars, tasks, crTasks, docVars, nextId>>

\* The placeholder is inserted, the task added and 202 returned.
RmGenerateCreate(c) ==
    /\ scope \in RmScopes
    /\ req[c].op = "rm_generate" /\ req[c].pc = "create"
    /\ nextId <= JobsAllowed
    /\ roleMappings' = roleMappings \cup {Placeholder(nextId, req[c].key)}
    /\ tasks' = tasks \cup {NewTask(nextId, req[c].key)}
    /\ nextId' = nextId + 1
    /\ Respond(c, "rm_generate", 202, IN_PROGRESS, {})
    /\ req' = [req EXCEPT ![c] = Idle]
    /\ UNCHANGED <<scope, bgVars, crVars, docVars>>

(***************************************************************************)
(* RoleMappingService (v3): the two-pass pipeline                          *)
(***************************************************************************)
Min(a, b) == IF a < b THEN a ELSE b

\* Pass 1 yields designations 1..n, designation i carrying sort_order i.
Designations(n) == [i \in 1..n |-> i]

\* Fault variant of Batches: only full batches are cut, the designations after
\* the last full batch are dropped.
BatchesWholeOnly(all, size) ==
    [j \in 1..(Len(all) \div size) |-> SubSeq(all, (j - 1) * size + 1, j * size)]

\* [all[i:i + size] for i in range(0, len(all), size)]
Batches(all, size) ==
    LET starts == {i \in 0..(Len(all) - 1) : i % size = 0}
    IN  [j \in 1..Cardinality(starts) |->
            SubSeq(all, (j - 1) * size + 1, Min(j * size, Len(all)))]

Pending == [kind |-> "pending", items |-> <<>>]

\* What one batch LLM call can come back with: an exception, empty text, text
\* json.loads rejects, JSON that is no array, or an array of up to MaxItems
\* objects for the batch's leading designations, with or without sort_order.
BatchItems(batch, m, withSort) ==
    [i \in 1..m |-> [d |-> batch[i], sort |-> IF withSort THEN <<batch[i]>> ELSE NoSort]]

BatchOutcomes(batch) ==
    {[kind |-> k, items |-> <<>>] : k \in {"raise", "empty", "garbage", "nonlist"}}
    \cup {[kind |-> "list", items |-> BatchItems(batch, m, w)] :
            m \in 0..Min(Len(batch), MaxItems), w \in BOOLEAN}

\* _generate_frac_for_batch: [] on an exception, on empty text and on
\* unparsable text; otherwise whatever json.loads produced.
generate_frac_for_batch(outcome) ==
    IF outcome.kind \in {"raise", "empty", "garbage"}
    THEN [kind |-> "list", items |-> <<>>]
    ELSE outcome

\* Fault variant of CombineFrom: the loop returns after the first batch result.
CombineFirstOnly(results, i) ==
    IF i > Len(results) THEN <<>>
    ELSE LET r == generate_frac_for_batch(results[i])
         IN  IF r.kind = "list" THEN r.items ELSE <<>>

\* The loop over batch_results: extend with every result that is a list.
RECURSIVE CombineFrom(_, _)
CombineFrom(results, i) ==
    IF i > Len(results) THEN <<>>
    ELSE LET r == generate_frac_for_batch(results[i])
         IN  (IF r.kind = "list" THEN r.items ELSE <<>>) \o CombineFrom(results, i + 1)

\* A batch call that raised, returned empty text or returned unparsable text.
Failed(outcome) == outcome.kind \in {"raise", "empty", "garbage"}

\* Fault variant of process_batches_parallel: a failed batch call is not
\* turned into [], gather propagates it and the whole result is discarded.
process_batches_fail_fast(results) ==
    IF \E i \in 1..Len(results) : Failed(results[i]) THEN <<>> ELSE CombineFrom(results, 1)

process_batches_parallel(results) == CombineFrom(results, 1)

(***************************************************************************)
(* process_role_mapping_task (v3)                                          *)
(***************************************************************************)
\* A task step: the task moves on, or returns and leaves the event loop.
TaskStep(t, u) ==
    /\ lastResp' = NoResp
    /\ IF u.pc = "done"
       THEN tasks' = tasks \ {t} /\ ended' = u
       ELSE tasks' = (tasks \ {t}) \cup {u} /\ ended' = NoTask

\* get_by_id: the task aborts when the placeholder is gone.
RmTaskFetch(id) ==
    \E t \in tasks :
    /\ scope \in RmScopes /\ t.id = id
    /\ t.pc = "start"
    /\ TaskStep(t, [t EXCEPT !.pc = IF RowById(t.id) = {} THEN "done" ELSE "pass1"])
    /\ UNCHANGED <<scope, bgVars, roleMappings, crVars, docVars, nextId, req>>

\* Pass 1 fails: the LLM raises, returns empty text or text the schema rejects.
\* _extract_designations re-raises, the task sets generated_data_list = None.
RmTaskPass1Raises(id) ==
    \E t \in tasks :
    /\ scope \in RmScopes /\ t.id = id
    /\ t.pc = "pass1"
    /\ TaskStep(t, [t EXCEPT !.pc = "merged", !.p1 = "raise", !.calls = 1,
                            !.err = "pass 1 error"])
    /\ UNCHANGED <<scope, bgVars, roleMappings, crVars, docVars, nextId, req>>

\* Pass 1 returns n designations; n = 0 returns [] without a Pass-2 call,
\* otherwise every batch call is started before gather is awaited.
RmTaskPass1(id, n) ==
    \E t \in tasks :
    /\ scope \in RmScopes /\ t.id = id /\ n \in P1Counts
    /\ t.pc = "pass1"
    /\ LET batches == Batches(Designations(n), FRAC_BATCH_SIZE)
       IN  TaskStep(t, IF n = 0
                      THEN [t EXCEPT !.pc = "merged", !.p1 = "empty", !.calls = 1]
                      ELSE [t EXCEPT !.pc = "fanout", !.p1 = "ok", !.n = n,
                                     !.bres = [j \in 1..Len(batches) |-> Pending],
                                     !.calls = 1 + Len(batches)])
    /\ UNCHANGED <<scope, bgVars, roleMappings, crVars, docVars, nextId, req>>

\* One batch call comes back, in any order.
RmTaskBatch(id, b) ==
    \E t \in tasks :
    /\ scope \in RmScopes /\ t.id = id
    /\ t.pc = "fanout"
    /\ b \in 1..Len(t.bres)
    /\ t.bres[b] = Pending
    /\ \E o \in BatchOutcomes(Batches(Designations(t.n), FRAC_BATCH_SIZE)[b]) :
          TaskStep(t, [t EXCEPT !.bres[b] = o])
    /\ UNCHANGED <<scope, bgVars, roleMappings, crVars, docVars, nextId, req>>

\* gather returns once no call is pending; the results are combined.
RmTaskMerge(id) ==
    \E t \in tasks :
    /\ scope \in RmScopes /\ t.id = id
    /\ t.pc = "fanout"
    /\ \A b \in 1..Len(t.bres) : t.bres[b] # Pending
    /\ TaskStep(t, [t EXCEPT !.pc = "merged", !.result = process_batches_parallel(t.bres)])
    /\ UNCHANGED <<scope, bgVars, roleMappings, crVars, docVars, nextId, req>>

\* if not generated_data_list: the placeholder is marked FAILED.
RmTaskWriteFailed(id) ==
    \E t \in tasks :
    /\ scope \in RmScopes /\ t.id = id
    /\ t.pc = "merged"
    /\ t.result = <<>>
    /\ roleMappings' = UpdateStatus(t.id, FAILED, NoMappingsMsg)
    /\ TaskStep(t, [t EXCEPT !.pc = IF RowById(t.id) = {} THEN "except" ELSE "done"])
    /\ UNCHANGED <<scope, bgVars, crVars, docVars, nextId, req>>

\* The first item is written into the placeholder.
RmTaskWriteFirst(id) ==
    \E t \in tasks :
    /\ scope \in RmScopes /\ t.id = id
    /\ t.pc = "merged"
    /\ t.result # <<>>
    /\ roleMappings' = UpdateRow(t.id, COMPLETED, t.result[1].d, t.result[1].sort, Null)
    /\ TaskStep(t, [t EXCEPT !.pc = IF RowById(t.id) = {} THEN "except" ELSE "write_rest"])
    /\ UNCHANGED <<scope, bgVars, crVars, docVars, nextId, req>>

Sibling(id, k, item) ==
    [id |-> id, key |-> k, st |-> COMPLETED, desig |-> item.d, sort |-> item.sort, err |-> Null]

\* The remaining items are inserted as new rows in one commit.
RmTaskWriteRest(id) ==
    \E t \in tasks :
    /\ scope \in RmScopes /\ t.id = id
    /\ t.pc = "write_rest"
    /\ LET rest == Tail(t.result)
       IN  /\ roleMappings' = roleMappings \cup
                  {Sibling(nextId + i - 1, t.key, rest[i]) : i \in 1..Len(rest)}
           /\ nextId' = nextId + Len(rest)
           /\ TaskStep(t, [t EXCEPT !.pc = "done",
                                   !.made = {nextId + i - 1 : i \in 1..Len(rest)}])
    /\ UNCHANGED <<scope, bgVars, crVars, docVars, req>>

\* The outer except: one more attempt to mark the placeholder FAILED; when that
\* raises too it is logged.
RmTaskExcept(id) ==
    \E t \in tasks :
    /\ scope \in RmScopes /\ t.id = id
    /\ t.pc = "except"
    /\ roleMappings' = UpdateStatus(t.id, FAILED, "str(e)")
    /\ TaskStep(t, [t EXCEPT !.pc = "done"])
    /\ UNCHANGED <<scope, bgVars, crVars, docVars, nextId, req>>

\* The ids clients ask for: those of the rows there are, and one of no row.
Requestable(id) == RowById(id) # {} \/ id = nextId

(***************************************************************************)
(* GET and DELETE on role mappings (v1)                                    *)
(***************************************************************************)
\* GET /role-mapping/{id}
RmGet(c, id) ==
    /\ scope = "manage" /\ Requestable(id)
    /\ c \in Callers /\ req[c] = Idle
    /\ IF RowById(id) = {} THEN Respond(c, "rm_get", 404, "-", {})
       ELSE \E r \in RowById(id) : Respond(c, "rm_get", 200, r.st, {r})
    /\ UNCHANGED <<scope, bgVars, roleMappings, tasks, crVars, docVars, nextId, req>>

\* DELETE /role-mapping/{id}: the row is read and its status checked.
RmDeleteByIdRead(c, id) ==
    /\ scope \in {"manage", "cr"} /\ Requestable(id)
    /\ c \in Callers /\ req[c] = Idle
    /\ IF RowById(id) = {}
       THEN /\ Respond(c, "rm_delete", 404, "-", {})
            /\ UNCHANGED req
       ELSE \E r \in RowById(id) :
              IF r.st = IN_PROGRESS
              THEN /\ Respond(c, "rm_delete", 412, r.st, {})
                   /\ UNCHANGED req
              ELSE /\ req' = [req EXCEPT ![c] = [Idle EXCEPT !.op = "rm_delete", !.pc = "delete", !.id = id]]
                   /\ Silent
    /\ UNCHANGED <<scope, bgVars, roleMappings, tasks, crVars, docVars, nextId>>

\* delete_by_id; recommended_courses rows go with it (ON DELETE CASCADE).
RmDeleteByIdDelete(c) ==
    /\ scope \in {"manage", "cr"}
    /\ req[c].op = "rm_delete" /\ req[c].pc = "delete"
    /\ roleMappings' = delete_by_id(req[c].id)
    /\ Cascade
    /\ Respond(c, "rm_delete", 204, "-", {})
    /\ req' = [req EXCEPT ![c] = Idle]
    /\ UNCHANGED <<scope, bgVars, tasks, crTasks, docVars, nextId>>

\* DELETE /role-mapping?state_center_id&department_id: get_in_progress_mapping.
RmDeleteByKeyCheck(c, k) ==
    /\ scope = "manage"
    /\ c \in Callers /\ req[c] = Idle
    /\ IF get_in_progress_mapping(k) # {}
       THEN /\ Respond(c, "rm_delete_key", 412, IN_PROGRESS, {})
            /\ UNCHANGED req
       ELSE /\ req' = [req EXCEPT ![c] = [Idle EXCEPT !.op = "rm_delete_key", !.pc = "delete", !.key = k]]
            /\ Silent
    /\ UNCHANGED <<scope, bgVars, roleMappings, tasks, crVars, docVars, nextId>>

RmDeleteByKeyDelete(c) ==
    /\ scope = "manage"
    /\ req[c].op = "rm_delete_key" /\ req[c].pc = "delete"
    /\ roleMappings' = delete_existing_mappings(req[c].key)
    /\ Cascade
    /\ Respond(c, "rm_delete_key", 200, "-", {})
    /\ req' = [req EXCEPT ![c] = Idle]
    /\ UNCHANGED <<scope, bgVars, tasks, crTasks, docVars, nextId>>

RmNext ==
    \/ \E c \in Clients, k \in Keys :
          \/ RmGenerateNone(c, k)
          \/ RmGenerateInProgress(c, k)
          \/ RmGenerateFoundCompleted(c, k)
          \/ RmGenerateFoundFailed(c, k)
          \/ RmDeleteByKeyCheck(c, k)
    \/ \E c \in Clients :
          \/ RmGenerateReadCompleted(c)
          \/ RmGenerateCleanup(c)
          \/ RmGenerateCreate(c)
          \/ RmDeleteByIdDelete(c)
          \/ RmDeleteByKeyDelete(c)
    \/ \E c \in Clients, id \in Ids :
          \/ RmGet(c, id)
          \/ RmDeleteByIdRead(c, id)
    \/ \E id \in Ids :
          \/ RmTaskFetch(id)
          \/ RmTaskPass1Raises(id)
          \/ \E n \in AllP1Counts : RmTaskPass1(id, n)
          \/ \E b \in 1..MaxBatches : RmTaskBatch(id, b)
          \/ RmTaskMerge(id)
          \/ RmTaskWriteFailed(id)
          \/ RmTaskWriteFirst(id)
          \/ RmTaskWriteRest(id)
          \/ RmTaskExcept(id)


(***************************************************************************)
(* Course recommendations: store queries                                   *)
(***************************************************************************)
Courses == {"a", "b", "c"}

\* The vector-search hits, and what the two concurrent LLM calls can come back
\* with. Relevance filtering: an exception, no text, text json.loads rejects,
\* or a JSON array of courses. General course discovery catches its own
\* failures and returns [] for them, otherwise the courses it found.
SearchHits == <<"a", "b", "c">>

AllFilterOutcomes ==
    {[kind |-> k, items |-> <<>>] : k \in {"raise", "none", "garbage"}}
    \cup {[kind |-> "json", items |-> f] : f \in {<<>>, SearchHits}}

FilterOutcomes ==
    IF scope = "crpipe" THEN AllFilterOutcomes
    ELSE {o \in AllFilterOutcomes : o.kind = "raise" \/ o.items = SearchHits}

GeneralOutcomes == IF scope = "crpipe" THEN {<<>>, <<"g">>} ELSE {<<>>}

\* The adapters that may raise under the workload.
CrRaises == scope = "crpipe"

EmbeddingMsg == "Failed to generate embeddings"

\* SELECT ... WHERE role_mapping_id = :id AND user_id = :u LIMIT 1, with no
\* ORDER BY: the database may return any row of the key.
get_by_role_mapping_id(rm) == {r \in recs : r.rm = rm}

RecById(id) == {r \in recs : r.id = id}

\* crud_recommended_course.create
NewRecommendation(id, rm) ==
    [id |-> id, rm |-> rm, st |-> IN_PROGRESS, err |-> Null,
     vq |-> "", emb |-> Null, actual |-> <<>>, filtered |-> <<>>]

\* Fault variant of update_status_to_failed: error_message is written, the
\* status is not.
update_message_only(id, msg) ==
    {IF r.id = id THEN [r EXCEPT !.err = msg] ELSE r : r \in recs}

\* UPDATE ... SET vector_query, embedding, actual_courses, filtered_courses,
\* status = 'COMPLETED' WHERE id = :id
update_status_and_data(id, vq, emb, actual, filtered) ==
    {IF r.id = id
     THEN [r EXCEPT !.vq = vq, !.emb = emb, !.actual = actual,
                    !.filtered = filtered, !.st = COMPLETED]
     ELSE r : r \in recs}

update_status_to_failed(id, msg) ==
    {IF r.id = id THEN [r EXCEPT !.st = FAILED, !.err = msg] ELSE r : r \in recs}

InSeq(x, seq) == \E i \in 1..Len(seq) : seq[i] = x

\* Fault variant of Without: the last entry is dropped, whichever it is.
WithoutLast(seq, x) == SubSeq(seq, 1, Len(seq) - 1)

\* [course for course in courses if course.get("identifier") != course_id]
Without(seq, x) == LET keep(y) == y # x IN SelectSeq(seq, keep)

\* calls: the adapters called so far; filt, gen: the results of the two
\* fan-out branches; err: the text of the exception the task caught.
\* gen: what the general call returned, Running until it has.
Running == <<"running">>

NoData == [vq |-> "", emb |-> Null, actual |-> <<>>, filtered |-> <<>>]

NewCrTask(id, rm) ==
    [id |-> id, key |-> rm, pc |-> "start", calls |-> {}, filt |-> Pending, gen |-> Running,
     out |-> NoData, err |-> Null]


CrTaskStep(t, u) ==
    /\ lastResp' = NoResp
    /\ IF u.pc = "done"
       THEN crTasks' = crTasks \ {t} /\ ended' = u
       ELSE crTasks' = (crTasks \ {t}) \cup {u} /\ ended' = NoTask

(***************************************************************************)
(* POST /course-recommendations/generate                                   *)
(***************************************************************************)
\* get_by_id_and_user on the role mapping: 404 when there is none.
CrGenerateStart(c, rm) ==
    /\ scope \in CrScopes
    /\ c \in Callers /\ req[c] = Idle
    /\ IF RowById(rm) = {}
       THEN /\ Respond(c, "cr_generate", 404, "-", {})
            /\ UNCHANGED req
       ELSE /\ req' = [req EXCEPT ![c] = [Idle EXCEPT !.op = "cr_generate", !.pc = "lookup", !.id = rm]]
            /\ Silent
    /\ UNCHANGED <<scope, bgVars, roleMappings, tasks, crVars, docVars, nextId>>

CrGenerateNone(c) ==
    /\ scope \in CrScopes
    /\ req[c].op = "cr_generate" /\ req[c].pc = "lookup"
    /\ get_by_role_mapping_id(req[c].id) = {}
    /\ req' = [req EXCEPT ![c].pc = "create", ![c].found = "none"]
    /\ Silent
    /\ UNCHANGED <<scope, bgVars, roleMappings, tasks, crVars, docVars, nextId>>

CrGenerateInProgress(c) ==
    /\ scope \in CrScopes
    /\ req[c].op = "cr_generate" /\ req[c].pc = "lookup"
    /\ \E e \in get_by_role_mapping_id(req[c].id) :
          /\ e.st = IN_PROGRESS
          /\ Respond(c, "cr_generate", 202, e.st, {e})
    /\ req' = [req EXCEPT ![c] = Idle]
    /\ UNCHANGED <<scope, bgVars, roleMappings, tasks, crVars, docVars, nextId>>

CrGenerateCompleted(c) ==
    /\ scope \in CrScopes
    /\ req[c].op = "cr_generate" /\ req[c].pc = "lookup"
    /\ \E e \in get_by_role_mapping_id(req[c].id) :
          /\ e.st = COMPLETED
          /\ Respond(c, "cr_generate", 201, e.st, {e})
    /\ req' = [req EXCEPT ![c] = Idle]
    /\ UNCHANGED <<scope, bgVars, roleMappings, tasks, crVars, docVars, nextId>>

\* The row found is FAILED. db.delete(existing_recommendation) and db.commit()
\* are called without await: the coroutines are never run, no row is deleted.
CrGenerateFailed(c) ==
    /\ scope \in CrScopes
    /\ req[c].op = "cr_generate" /\ req[c].pc = "lookup"
    /\ \E e \in get_by_role_mapping_id(req[c].id) :
          /\ e.st = FAILED
          /\ req' = [req EXCEPT ![c].pc = "create", ![c].found = FAILED, ![c].snap = {e}]
    /\ Silent
    /\ UNCHANGED <<scope, bgVars, roleMappings, tasks, crVars, docVars, nextId>>

\* The new row is inserted IN_PROGRESS, the task added and 202 returned.
CrGenerateCreate(c) ==
    /\ scope \in CrScopes
    /\ req[c].op = "cr_generate" /\ req[c].pc = "create"
    /\ nextId <= JobsAllowed + 1
    /\ recs' = recs \cup {NewRecommendation(nextId, req[c].id)}
    /\ crTasks' = crTasks \cup {NewCrTask(nextId, req[c].id)}
    /\ nextId' = nextId + 1
    /\ Respond(c, "cr_generate", 202, IN_PROGRESS, {NewRecommendation(nextId, req[c].id)})
    /\ req' = [req EXCEPT ![c] = Idle]
    /\ UNCHANGED <<scope, bgVars, roleMappings, tasks, suggested, docVars>>

(***************************************************************************)
(* process_recommendation_task                                             *)
(***************************************************************************)
CrTaskFetch(id) ==
    \E t \in crTasks :
    /\ scope \in CrScopes /\ t.id = id
    /\ t.pc = "start"
    /\ CrTaskStep(t, [t EXCEPT !.pc = IF RecById(id) = {} THEN "done" ELSE "query"])
    /\ UNCHANGED <<scope, bgVars, roleMappings, tasks, recs, suggested, docVars, nextId, req>>

CrQuiet == UNCHANGED <<scope, bgVars, roleMappings, tasks, recs, suggested, docVars, nextId, req>>

\* generate_vector_query: the LLM call raises, or returns the query text.
CrTaskQuery(id) ==
    \E t \in crTasks :
    /\ scope \in CrScopes /\ t.id = id
    /\ t.pc = "query"
    /\ \/ CrRaises /\ CrTaskStep(t, [t EXCEPT !.pc = "except", !.calls = {"vector_query"},
                                              !.err = "vector query error"])
       \/ CrTaskStep(t, [t EXCEPT !.pc = "embed", !.calls = {"vector_query"}])
    /\ CrQuiet

\* get_embedding returns [] for an empty text and for any error of the
\* embedding call; the task raises on an empty list.
CrTaskEmbed(id) ==
    \E t \in crTasks :
    /\ scope \in CrScopes /\ t.id = id
    /\ t.pc = "embed"
    /\ \/ CrRaises /\ CrTaskStep(t, [t EXCEPT !.pc = "except", !.calls = @ \cup {"embedding"},
                                              !.err = EmbeddingMsg])
       \/ CrTaskStep(t, [t EXCEPT !.pc = "search", !.calls = @ \cup {"embedding"}])
    /\ CrQuiet

\* fetch_vector_search_courses raises, or returns the hits; then both LLM
\* calls are started and gather is awaited.
CrTaskSearch(id) ==
    \E t \in crTasks :
    /\ scope \in CrScopes /\ t.id = id
    /\ t.pc = "search"
    /\ \/ CrRaises /\ CrTaskStep(t, [t EXCEPT !.pc = "except", !.calls = @ \cup {"vector_search"},
                                              !.err = "vector search error"])
       \/ CrTaskStep(t, [t EXCEPT !.pc = "fanout",
                                  !.calls = @ \cup {"vector_search", "filter", "general"}])
    /\ CrQuiet

\* get_filtered_courses_by_llm comes back. It catches nothing: its exception
\* ends gather at once (return_exceptions is not set) and the task is in its
\* except block whether or not the other call has finished.
CrTaskFilterBranch(id) ==
    \E t \in crTasks :
    /\ scope \in CrScopes /\ t.id = id
    /\ t.pc = "fanout" /\ t.filt = Pending
    /\ \E o \in FilterOutcomes :
          CrTaskStep(t, IF o.kind = "raise"
                        THEN [t EXCEPT !.pc = "except", !.filt = o, !.err = "filter error"]
                        ELSE [t EXCEPT !.filt = o])
    /\ CrQuiet

\* get_general_courses_from_gemini comes back.
CrTaskGeneralBranch(id) ==
    \E t \in crTasks :
    /\ scope \in CrScopes /\ t.id = id
    /\ t.pc = "fanout" /\ t.gen = Running
    /\ \E g \in GeneralOutcomes : CrTaskStep(t, [t EXCEPT !.gen = g])
    /\ CrQuiet

\* gather returns. json.loads raises on None and on unparsable text; a
\* non-empty list goes on to the metadata lookup, an empty one to the update.
CrTaskJoin(id) ==
    \E t \in crTasks :
    /\ scope \in CrScopes /\ t.id = id
    /\ t.pc = "fanout" /\ t.filt # Pending /\ t.gen # Running
    /\ CrTaskStep(t,
          IF t.filt.kind # "json"
          THEN [t EXCEPT !.pc = "except", !.err = "json error"]
          ELSE IF t.filt.items # <<>>
          THEN [t EXCEPT !.pc = "metadata", !.calls = @ \cup {"metadata"}]
          ELSE [t EXCEPT !.pc = "write",
                         !.out = [vq |-> "q", emb |-> "e", actual |-> SearchHits,
                                  filtered |-> t.gen]])
    /\ CrQuiet

\* fetch_course_metadata raises, or returns; final = filtered + general.
CrTaskMetadata(id) ==
    \E t \in crTasks :
    /\ scope \in CrScopes /\ t.id = id
    /\ t.pc = "metadata"
    /\ \/ CrRaises /\ CrTaskStep(t, [t EXCEPT !.pc = "except", !.err = "metadata error"])
       \/ CrTaskStep(t, [t EXCEPT !.pc = "write",
                                  !.out = [vq |-> "q", emb |-> "e", actual |-> SearchHits,
                                           filtered |-> t.filt.items \o t.gen]])
    /\ CrQuiet

\* update_status_and_data; scalar_one() raises when the row is gone.
CrTaskWrite(id) ==
    \E t \in crTasks :
    /\ scope \in CrScopes /\ t.id = id
    /\ t.pc = "write"
    /\ recs' = update_status_and_data(id, t.out.vq, t.out.emb, t.out.actual, t.out.filtered)
    /\ CrTaskStep(t, IF RecById(id) = {}
                      THEN [t EXCEPT !.pc = "except", !.err = "no row"]
                      ELSE [t EXCEPT !.pc = "done"])
    /\ UNCHANGED <<scope, bgVars, roleMappings, tasks, suggested, docVars, nextId, req>>

\* except: update_status_to_failed; when that raises too it is logged.
CrTaskExcept(id) ==
    \E t \in crTasks :
    /\ scope \in CrScopes /\ t.id = id
    /\ t.pc = "except"
    /\ recs' = update_status_to_failed(id, t.err)
    /\ CrTaskStep(t, [t EXCEPT !.pc = "done"])
    /\ UNCHANGED <<scope, bgVars, roleMappings, tasks, suggested, docVars, nextId, req>>

(***************************************************************************)
(* GET /course-recommendations, DELETE /course-recommendations/role-mapping*)
(***************************************************************************)
CrGet(c, rm) ==
    /\ scope = "cr"
    /\ c \in Callers /\ req[c] = Idle
    /\ IF get_by_role_mapping_id(rm) = {} THEN Respond(c, "cr_get", 404, "-", {})
       ELSE \E e \in get_by_role_mapping_id(rm) : Respond(c, "cr_get", 200, e.st, {e})
    /\ UNCHANGED <<scope, bgVars, roleMappings, tasks, crVars, docVars, nextId, req>>

\* The row is read and its status checked.
CrDeleteRead(c, rm) ==
    /\ scope = "cr"
    /\ c \in Callers /\ req[c] = Idle
    /\ IF get_by_role_mapping_id(rm) = {}
       THEN /\ Respond(c, "cr_delete", 404, "-", {})
            /\ UNCHANGED req
       ELSE \E e \in get_by_role_mapping_id(rm) :
              IF e.st = IN_PROGRESS
              THEN /\ Respond(c, "cr_delete", 412, e.st, {})
                   /\ UNCHANGED req
              ELSE /\ req' = [req EXCEPT ![c] = [Idle EXCEPT !.op = "cr_delete", !.pc = "delete", !.id = e.id]]
                   /\ Silent
    /\ UNCHANGED <<scope, bgVars, roleMappings, tasks, crVars, docVars, nextId>>

CrDeleteDelete(c) ==
    /\ scope = "cr"
    /\ req[c].op = "cr_delete" /\ req[c].pc = "delete"
    /\ recs' = recs \ RecById(req[c].id)
    /\ Respond(c, "cr_delete", 200, "-", {})
    /\ req' = [req EXCEPT ![c] = Idle]
    /\ UNCHANGED <<scope, bgVars, roleMappings, tasks, suggested, crTasks, docVars, nextId>>

(***************************************************************************)
(* DELETE /course-recommendations/{role_mapping_id}/course/{course_id}     *)
(***************************************************************************)
\* Step 1: the row read lists the course. The status is checked only here.
CrDeleteCourseFound(c, rm, course) ==
    /\ scope = "cr"
    /\ c \in Callers /\ req[c] = Idle
    /\ \E e \in get_by_role_mapping_id(rm) :
          /\ InSeq(course, e.filtered)
          /\ IF e.st = IN_PROGRESS
             THEN /\ Respond(c, "cr_delete_course", 409, e.st, {})
                  /\ UNCHANGED req
             ELSE /\ req' = [req EXCEPT ![c] = [Idle EXCEPT !.op = "cr_delete_course", !.pc = "write",
                                                         !.id = rm, !.course = course,
                                                         !.found = e.st, !.snap = {e}]]
                  /\ Silent
    /\ UNCHANGED <<scope, bgVars, roleMappings, tasks, crVars, docVars, nextId>>

\* Step 1 finds no row, or a row that does not list the course: on to step 2.
CrDeleteCourseNotFound(c, rm, course) ==
    /\ scope = "cr"
    /\ c \in Callers /\ req[c] = Idle
    /\ \E f \in IF get_by_role_mapping_id(rm) = {} THEN {"none"}
                 ELSE {e.st : e \in {x \in get_by_role_mapping_id(rm) : ~InSeq(course, x.filtered)}} :
          req' = [req EXCEPT ![c] = [Idle EXCEPT !.op = "cr_delete_course", !.pc = "suggestions",
                                                  !.id = rm, !.course = course, !.found = f]]
    /\ Silent
    /\ UNCHANGED <<scope, bgVars, roleMappings, tasks, crVars, docVars, nextId>>

\* update_status_and_data with the fields read in step 1 and the shorter list.
CrDeleteCourseWrite(c) ==
    /\ scope = "cr"
    /\ req[c].op = "cr_delete_course" /\ req[c].pc = "write"
    /\ \E e \in req[c].snap :
          /\ recs' = update_status_and_data(e.id, e.vq, e.emb, e.actual,
                                            Without(e.filtered, req[c].course))
          /\ IF RecById(e.id) = {}
             THEN Respond(c, "cr_delete_course", 500, "-", {})
             ELSE Respond(c, "cr_delete_course", 200, "recommendation",
                          {[remaining_courses |-> Len(Without(e.filtered, req[c].course))]})
    /\ req' = [req EXCEPT ![c] = Idle]
    /\ UNCHANGED <<scope, bgVars, roleMappings, tasks, suggested, crTasks, docVars, nextId>>

\* Step 2: the suggestions row lists the course.
CrDeleteCourseSuggested(c) ==
    /\ scope = "cr"
    /\ req[c].op = "cr_delete_course" /\ req[c].pc = "suggestions"
    /\ \E g \in suggested :
          /\ g.rm = req[c].id /\ InSeq(req[c].course, g.ids)
          /\ req' = [req EXCEPT ![c].pc = "suggestion_write", ![c].snap = {g}]
    /\ Silent
    /\ UNCHANGED <<scope, bgVars, roleMappings, tasks, crVars, docVars, nextId>>

\* crud_suggested_course.update; scalar_one() raises when the row is gone.
CrDeleteCourseSuggestionWrite(c) ==
    /\ scope = "cr"
    /\ req[c].op = "cr_delete_course" /\ req[c].pc = "suggestion_write"
    /\ \E g \in req[c].snap :
          /\ suggested' = {IF h.rm = g.rm THEN [h EXCEPT !.ids = Without(g.ids, req[c].course)]
                                          ELSE h : h \in suggested}
          /\ IF \E h \in suggested : h.rm = g.rm
             THEN Respond(c, "cr_delete_course", 200, "suggestion",
                          {[remaining_courses |-> Len(Without(g.ids, req[c].course))]})
             ELSE Respond(c, "cr_delete_course", 500, "-", {})
    /\ req' = [req EXCEPT ![c] = Idle]
    /\ UNCHANGED <<scope, bgVars, roleMappings, tasks, recs, crTasks, docVars, nextId>>

\* Step 3: crud_user_added_course has no get_by_identifier; the AttributeError
\* is answered with 500.
CrDeleteCourseUserAdded(c) ==
    /\ scope = "cr"
    /\ req[c].op = "cr_delete_course" /\ req[c].pc = "suggestions"
    /\ ~\E g \in suggested : g.rm = req[c].id /\ InSeq(req[c].course, g.ids)
    /\ Respond(c, "cr_delete_course", 500, "-", {})
    /\ req' = [req EXCEPT ![c] = Idle]
    /\ UNCHANGED <<scope, bgVars, roleMappings, tasks, crVars, docVars, nextId>>

RmIds == {1}

CrNext ==
    \/ \E c \in Clients, rm \in RmIds :
          \/ CrGenerateStart(c, rm)
          \/ CrGet(c, rm)
          \/ CrDeleteRead(c, rm)
          \/ \E course \in Courses :
                \/ CrDeleteCourseFound(c, rm, course)
                \/ CrDeleteCourseNotFound(c, rm, course)
    \/ \E c \in Clients :
          \/ CrGenerateNone(c)
          \/ CrGenerateInProgress(c)
          \/ CrGenerateCompleted(c)
          \/ CrGenerateFailed(c)
          \/ CrGenerateCreate(c)
          \/ CrDeleteDelete(c)
          \/ CrDeleteCourseWrite(c)
          \/ CrDeleteCourseSuggested(c)
          \/ CrDeleteCourseSuggestionWrite(c)
          \/ CrDeleteCourseUserAdded(c)
          \/ RmDeleteByIdDelete(c)
    \/ \E c \in Clients, id \in Ids : RmDeleteByIdRead(c, id)
    \/ \E id \in Ids :
          \/ CrTaskFetch(id)
          \/ CrTaskQuery(id)
          \/ CrTaskEmbed(id)
          \/ CrTaskSearch(id)
          \/ CrTaskFilterBranch(id)
          \/ CrTaskGeneralBranch(id)
          \/ CrTaskJoin(id)
          \/ CrTaskMetadata(id)
          \/ CrTaskWrite(id)
          \/ CrTaskExcept(id)


(***************************************************************************)
(* Documents and their summaries                                           *)
(***************************************************************************)
DocIds == {1, 2}                    \* the documents stored before the run
DocTargets == {1}                   \* the documents the clients send requests for
MetaId == Cardinality(DocIds) + 1   \* the meta-summary stored before the run
MetaDocIds == 1..4                  \* the documents stored under the "meta" workload

\* The first uuid a run draws.
FirstId == IF scope \in CrScopes THEN 2
           ELSE IF scope = "meta" THEN Cardinality(MetaDocIds) + 1
           ELSE IF scope = "doc" THEN MetaId + 1
           ELSE 1

NOT_STARTED == "NOT_STARTED"
NoRid == <<>>                       \* last_summary_request_id IS NULL
PENDING == "PENDING"

DocById(id) == {d \in docs : d.id = id}

\* crud_document.update: UPDATE ... WHERE file_id = :id; scalar_one() raises
\* when no row matched.
SetSummary(id, st, text, err) ==
    {IF d.id = id THEN [d EXCEPT !.st = st, !.text = text, !.err = err] ELSE d : d \in docs}

\* update(document_id, {'summary_status': "IN_PROGRESS"}): summary_error is
\* left as it was.
MarkInProgress(id) == {IF d.id = id THEN [d EXCEPT !.st = IN_PROGRESS] ELSE d : d \in docs}

SetSummaryStatus(id, st, err) ==
    {IF d.id = id THEN [d EXCEPT !.st = st, !.err = err] ELSE d : d \in docs}

NewDocTask(tid, id) == [id |-> tid, key |-> id, pc |-> "start", out |-> Null]

DocTaskStep(t, u) ==
    /\ lastResp' = NoResp
    /\ IF u.pc = "done"
       THEN docTasks' = docTasks \ {t} /\ ended' = u
       ELSE docTasks' = (docTasks \ {t}) \cup {u} /\ ended' = NoTask

\* The file ids clients ask for: one document, and an id of no document.
DocRequestable(id) == id \in DocTargets \/ id = nextId

(***************************************************************************)
(* POST /documents/{file_id}/summary                                       *)
(***************************************************************************)
\* Fault variant of Summarised: only COMPLETED counts as already done.
SummarisedOnlyCompleted(d) == d.st = COMPLETED

\* if doc.summary_status in ("IN_PROGRESS", "COMPLETED")
Summarised(d) == d.st \in {IN_PROGRESS, COMPLETED}

\* The document is read. The 404 raised for a missing one is caught by the
\* handler's own except Exception and answered as 500.
DocTriggerRead(c, id) ==
    /\ scope \in DocScopes /\ DocRequestable(id)
    /\ c \in Callers /\ req[c] = Idle
    /\ IF DocById(id) = {}
       THEN /\ Respond(c, "doc_trigger", 500, "-", {})
            /\ UNCHANGED req
       ELSE \E d \in DocById(id) :
              IF Summarised(d) /\ d.rid # NoRid
              THEN /\ Respond(c, "doc_trigger", 202, d.st, {})
                   /\ UNCHANGED req
              ELSE /\ nextId \in Ids /\ (Summarised(d) \/ nextId < FirstId + JobsAllowed)
                   /\ req' = [req EXCEPT ![c] = [Idle EXCEPT !.op = "doc_trigger", !.id = id, !.snap = {d},
                                 !.pc = IF Summarised(d) THEN "set_rid" ELSE "schedule"]]
                   /\ Silent
    /\ UNCHANGED <<scope, bgVars, roleMappings, tasks, crVars, docVars, nextId>>

\* Already IN_PROGRESS or COMPLETED without a request id: one is stored.
DocTriggerSetRequestId(c) ==
    /\ scope \in DocScopes
    /\ req[c].op = "doc_trigger" /\ req[c].pc = "set_rid"
    /\ nextId \in Ids
    /\ docs' = {IF d.id = req[c].id THEN [d EXCEPT !.rid = <<nextId>>] ELSE d : d \in docs}
    /\ nextId' = nextId + 1
    /\ IF DocById(req[c].id) = {}
       THEN Respond(c, "doc_trigger", 500, "-", {})
       ELSE \E d \in req[c].snap : Respond(c, "doc_trigger", 202, d.st, {})
    /\ req' = [req EXCEPT ![c] = Idle]
    /\ UNCHANGED <<scope, bgVars, roleMappings, tasks, crVars, metas, storage, docTasks>>

\* NOT_STARTED or FAILED: the status is reset, the task added, 202 returned.
DocTriggerSchedule(c) ==
    /\ scope \in DocScopes
    /\ req[c].op = "doc_trigger" /\ req[c].pc = "schedule"
    /\ nextId \in Ids /\ nextId < FirstId + JobsAllowed
    /\ docs' = {IF d.id = req[c].id THEN [d EXCEPT !.rid = <<nextId>>, !.st = NOT_STARTED] ELSE d : d \in docs}
    /\ nextId' = nextId + 1
    /\ IF DocById(req[c].id) = {}
       THEN /\ Respond(c, "doc_trigger", 500, "-", {})
            /\ UNCHANGED docTasks
       ELSE /\ Respond(c, "doc_trigger", 202, IN_PROGRESS, {})
            /\ docTasks' = docTasks \cup {NewDocTask(nextId, req[c].id)}
    /\ req' = [req EXCEPT ![c] = Idle]
    /\ UNCHANGED <<scope, bgVars, roleMappings, tasks, crVars, metas, storage>>

(***************************************************************************)
(* _run_document_summary                                                   *)
(***************************************************************************)
\* The document is read; nothing to do when it is gone, COMPLETED or IN_PROGRESS.
DocTaskFetch(tid) ==
    \E t \in docTasks :
    /\ scope \in DocScopes /\ t.id = tid
    /\ t.pc = "start"
    /\ DocTaskStep(t, [t EXCEPT !.pc =
          IF \E d \in DocById(t.key) : d.st \notin {COMPLETED, IN_PROGRESS} THEN "mark" ELSE "done"])
    /\ UNCHANGED <<scope, bgVars, roleMappings, tasks, crVars, docs, metas, storage, nextId, req>>

\* The document is marked IN_PROGRESS (the outer except logs a missing row),
\* then the bytes are read from storage.
DocTaskMark(tid) ==
    \E t \in docTasks :
    /\ scope \in DocScopes /\ t.id = tid
    /\ t.pc = "mark"
    /\ docs' = MarkInProgress(t.key)
    /\ DocTaskStep(t, [t EXCEPT !.pc = IF DocById(t.key) = {} THEN "done"
                                       ELSE IF t.key \in storage THEN "llm" ELSE "file_missing"])
    /\ UNCHANGED <<scope, bgVars, roleMappings, tasks, crVars, metas, storage, nextId, req>>

DocTaskFileMissing(tid) ==
    \E t \in docTasks :
    /\ scope \in DocScopes /\ t.id = tid
    /\ t.pc = "file_missing"
    /\ docs' = SetSummaryStatus(t.key, FAILED, "File missing in storage")
    /\ DocTaskStep(t, [t EXCEPT !.pc = "done"])
    /\ UNCHANGED <<scope, bgVars, roleMappings, tasks, crVars, metas, storage, nextId, req>>

\* The LLM returns a summary, or raises or returns no text.
DocTaskLlm(tid) ==
    \E t \in docTasks :
    /\ scope \in DocScopes /\ t.id = tid
    /\ t.pc = "llm"
    /\ \E o \in {"summary", "error"} : DocTaskStep(t, [t EXCEPT !.pc = "write", !.out = o])
    /\ UNCHANGED <<scope, bgVars, roleMappings, tasks, crVars, docs, metas, storage, nextId, req>>

DocTaskWrite(tid) ==
    \E t \in docTasks :
    /\ scope \in DocScopes /\ t.id = tid
    /\ t.pc = "write"
    /\ docs' = IF t.out = "summary" THEN SetSummary(t.key, COMPLETED, "summary", Null)
                                    ELSE SetSummaryStatus(t.key, FAILED, "str(e)")
    /\ DocTaskStep(t, [t EXCEPT !.pc = "done"])
    /\ UNCHANGED <<scope, bgVars, roleMappings, tasks, crVars, metas, storage, nextId, req>>

(***************************************************************************)
(* DELETE /documents/{file_id} and DELETE /documents/{file_id}/summary     *)
(***************************************************************************)
\* The document is read and its summary status checked; the stored bytes are
\* deleted before the next await.
DocDeleteFileRead(c, id) ==
    /\ scope \in DocScopes /\ DocRequestable(id)
    /\ c \in Callers /\ req[c] = Idle
    /\ IF DocById(id) = {}
       THEN /\ Respond(c, "doc_delete", 404, "-", {})
            /\ UNCHANGED <<req, storage>>
       ELSE \E d \in DocById(id) :
              IF d.st = IN_PROGRESS
              THEN /\ Respond(c, "doc_delete", 409, d.st, {})
                   /\ UNCHANGED <<req, storage>>
              ELSE /\ storage' = storage \ {id}
                   /\ req' = [req EXCEPT ![c] = [Idle EXCEPT !.op = "doc_delete", !.pc = "metas", !.id = id]]
                   /\ Silent
    /\ UNCHANGED <<scope, bgVars, roleMappings, tasks, crVars, docs, metas, docTasks, nextId>>

\* Meta-summaries that reference the file: the id is taken out of file_ids; a
\* meta-summary left with no file is deleted, any other is reset to PENDING.
DocDeleteFileMetas(c) ==
    /\ scope \in DocScopes
    /\ req[c].op = "doc_delete" /\ req[c].pc = "metas"
    /\ metas' = {IF InSeq(req[c].id, m.files)
                 THEN [m EXCEPT !.files = Without(m.files, req[c].id), !.st = PENDING,
                                !.err = Null]
                 ELSE m :
                   m \in {x \in metas : ~InSeq(req[c].id, x.files) \/ Without(x.files, req[c].id) # <<>>}}
    /\ req' = [req EXCEPT ![c].pc = "delete"]
    /\ Silent
    /\ UNCHANGED <<scope, bgVars, roleMappings, tasks, crVars, docs, storage, docTasks, nextId>>

DocDeleteFileDelete(c) ==
    /\ scope \in DocScopes
    /\ req[c].op = "doc_delete" /\ req[c].pc = "delete"
    /\ docs' = docs \ DocById(req[c].id)
    /\ Respond(c, "doc_delete", 200, "-", {})
    /\ req' = [req EXCEPT ![c] = Idle]
    /\ UNCHANGED <<scope, bgVars, roleMappings, tasks, crVars, metas, storage, docTasks, nextId>>

DocDeleteSummaryRead(c, id) ==
    /\ scope = "doc" /\ DocRequestable(id)
    /\ c \in Callers /\ req[c] = Idle
    /\ IF DocById(id) = {}
       THEN /\ Respond(c, "doc_delete_summary", 404, "-", {})
            /\ UNCHANGED req
       ELSE \E d \in DocById(id) :
              IF d.st = IN_PROGRESS
              THEN /\ Respond(c, "doc_delete_summary", 409, d.st, {})
                   /\ UNCHANGED req
              ELSE /\ req' = [req EXCEPT ![c] = [Idle EXCEPT !.op = "doc_delete_summary", !.pc = "reset", !.id = id]]
                   /\ Silent
    /\ UNCHANGED <<scope, bgVars, roleMappings, tasks, crVars, docVars, nextId>>

\* The summary fields are cleared and the status set back to NOT_STARTED.
DocDeleteSummaryReset(c) ==
    /\ scope = "doc"
    /\ req[c].op = "doc_delete_summary" /\ req[c].pc = "reset"
    /\ docs' = {IF d.id = req[c].id
                THEN [d EXCEPT !.st = NOT_STARTED, !.text = Null, !.err = Null, !.rid = NoRid]
                ELSE d : d \in docs}
    /\ IF DocById(req[c].id) = {}
       THEN Respond(c, "doc_delete_summary", 500, "-", {})
       ELSE Respond(c, "doc_delete_summary", 200, "-", {})
    /\ req' = [req EXCEPT ![c] = Idle]
    /\ UNCHANGED <<scope, bgVars, roleMappings, tasks, crVars, metas, storage, docTasks, nextId>>

DocNext ==
    \/ \E c \in Clients, id \in Ids :
          \/ DocTriggerRead(c, id)
          \/ DocDeleteFileRead(c, id)
          \/ DocDeleteSummaryRead(c, id)
    \/ \E c \in Clients :
          \/ DocTriggerSetRequestId(c)
          \/ DocTriggerSchedule(c)
          \/ DocDeleteFileMetas(c)
          \/ DocDeleteFileDelete(c)
          \/ DocDeleteSummaryReset(c)
    \/ \E tid \in Ids :
          \/ DocTaskFetch(tid)
          \/ DocTaskMark(tid)
          \/ DocTaskFileMissing(tid)
          \/ DocTaskLlm(tid)
          \/ DocTaskWrite(tid)

(***************************************************************************)
(* POST /meta-summaries and DELETE /meta-summaries/{request_id}            *)
(***************************************************************************)
NoDoc == 0                          \* a file id of no document

\* The file_ids lists clients send.
MetaRequests == {<<>>, <<1, 2>>, <<2, 2>>, <<2, 3>>, <<2, 4>>, <<2, NoDoc>>}

MetaById(id) == {m \in metas : m.id = id}

\* list(dict.fromkeys(file_ids)): duplicates dropped, first occurrences kept.
RECURSIVE Dedupe(_)
Dedupe(ids) ==
    IF ids = <<>> THEN <<>>
    ELSE LET rest == Dedupe(SubSeq(ids, 1, Len(ids) - 1))
             last == ids[Len(ids)]
         IN  IF InSeq(last, rest) THEN rest ELSE Append(rest, last)

\* crud_document.get_by_identifiers: WHERE file_id IN (:ids)
get_by_identifiers(ids) == {d \in docs : InSeq(d.id, ids)}

\* The checks of create_meta_summary, each raising HTTPException(400).
NoFileIds(ids) == Dedupe(ids) = <<>>

SomeFileMissing(ids) == Cardinality(get_by_identifiers(Dedupe(ids))) # Len(Dedupe(ids))

SeveralStateCenters(ids) == Cardinality({d.sc : d \in get_by_identifiers(Dedupe(ids))}) > 1

SeveralDepartments(ids) == Cardinality({d.dep : d \in get_by_identifiers(Dedupe(ids))}) > 1

\* update(...).returning(...).scalar_one(): raises when no row matched.
UpdateMeta(id, st, err) ==
    {IF m.id = id THEN [m EXCEPT !.st = st, !.err = err] ELSE m : m \in metas}

\* update(request_id, {'status': 'IN_PROGRESS'}): error_message is left as it was.
MarkMetaInProgress(id) == {IF m.id = id THEN [m EXCEPT !.st = IN_PROGRESS] ELSE m : m \in metas}

NewMetaTask(id) ==
    [id |-> id, key |-> id, pc |-> "start", files |-> <<>>, i |-> 0, doc |-> NoDoc,
     saw |-> Null, calls |-> {}, err |-> Null]

\* The ids are deduplicated and the documents read. Each HTTPException(400)
\* is raised inside the handler's try and caught by its except Exception,
\* which answers 500.
MetaCreateCheck(c, ids) ==
    /\ scope = "meta" /\ ids \in MetaRequests
    /\ c \in Callers /\ req[c] = Idle
    /\ nextId \in Ids /\ nextId < FirstId + JobsAllowed
    /\ IF \/ NoFileIds(ids) \/ SomeFileMissing(ids)
          \/ SeveralStateCenters(ids) \/ SeveralDepartments(ids)
       THEN /\ Respond(c, "meta_create", 500, "-", {})
            /\ UNCHANGED req
       ELSE /\ req' = [req EXCEPT ![c] = [Idle EXCEPT !.op = "meta_create", !.pc = "create",
                                                      !.snap = {Dedupe(ids)}]]
            /\ Silent
    /\ UNCHANGED <<scope, roleMappings, tasks, crVars, docVars, bgVars, nextId>>

\* The record is inserted PENDING, the task added, 202 returned.
MetaCreateWrite(c) ==
    /\ scope = "meta"
    /\ req[c].op = "meta_create" /\ req[c].pc = "create"
    /\ nextId \in Ids
    /\ \E ids \in req[c].snap :
          metas' = metas \cup {[id |-> nextId, files |-> ids, st |-> PENDING, err |-> Null]}
    /\ metaTasks' = metaTasks \cup {NewMetaTask(nextId)}
    /\ nextId' = nextId + 1
    /\ Respond(c, "meta_create", 202, PENDING, {})
    /\ req' = [req EXCEPT ![c] = Idle]
    /\ UNCHANGED <<scope, roleMappings, tasks, crVars, docs, storage, docTasks, scds, scdTasks>>

\* The request ids clients ask for: those of the records, and one of no record.
MetaRequestable(id) == MetaById(id) # {} \/ id = nextId

MetaDeleteRead(c, id) ==
    /\ scope = "meta" /\ MetaRequestable(id)
    /\ c \in Callers /\ req[c] = Idle
    /\ IF MetaById(id) = {}
       THEN /\ Respond(c, "meta_delete", 404, "-", {})
            /\ UNCHANGED req
       ELSE /\ req' = [req EXCEPT ![c] = [Idle EXCEPT !.op = "meta_delete", !.pc = "delete", !.id = id]]
            /\ Silent
    /\ UNCHANGED <<scope, roleMappings, tasks, crVars, docVars, bgVars, nextId>>

MetaDeleteDelete(c) ==
    /\ scope = "meta"
    /\ req[c].op = "meta_delete" /\ req[c].pc = "delete"
    /\ metas' = metas \ MetaById(req[c].id)
    /\ Respond(c, "meta_delete", 200, "-", {})
    /\ req' = [req EXCEPT ![c] = Idle]
    /\ UNCHANGED <<scope, roleMappings, tasks, crVars, docs, storage, docTasks, bgVars, nextId>>

(***************************************************************************)
(* _run_meta_summary                                                       *)
(***************************************************************************)
MetaTaskStep(t, u) ==
    /\ lastResp' = NoResp
    /\ IF u.pc = "done"
       THEN metaTasks' = metaTasks \ {t} /\ ended' = u
       ELSE metaTasks' = (metaTasks \ {t}) \cup {u} /\ ended' = NoTask

\* The record is read; nothing to do when it is gone, IN_PROGRESS or COMPLETED.
MetaTaskFetch(id) ==
    \E t \in metaTasks :
    /\ scope = "meta" /\ t.id = id
    /\ t.pc = "start"
    /\ IF \E m \in MetaById(t.id) : m.st \notin {IN_PROGRESS, COMPLETED}
       THEN \E m \in MetaById(t.id) : MetaTaskStep(t, [t EXCEPT !.pc = "mark", !.files = m.files])
       ELSE MetaTaskStep(t, [t EXCEPT !.pc = "done"])
    /\ UNCHANGED <<scope, roleMappings, tasks, crVars, docVars, scds, scdTasks, nextId, req>>

\* The record is marked IN_PROGRESS; when it is gone scalar_one() raises and
\* the outer except logs.
MetaTaskMark(id) ==
    \E t \in metaTasks :
    /\ scope = "meta" /\ t.id = id
    /\ t.pc = "mark"
    /\ metas' = MarkMetaInProgress(t.id)
    /\ MetaTaskStep(t, [t EXCEPT !.i = 1,
                                 !.pc = IF MetaById(t.id) = {} THEN "done"
                                        ELSE IF t.files = <<>> THEN "llm" ELSE "docs"])
    /\ UNCHANGED <<scope, roleMappings, tasks, crVars, docs, storage, docTasks, scds, scdTasks,
                   nextId, req>>

\* One turn of the loop over file_ids. For a FAILED or NOT_STARTED document
\* _run_document_summary(...) is called without await: the coroutine object
\* is dropped and nothing runs. For a document that is not COMPLETED the
\* message is built from doc.id, an attribute Document does not have: the
\* AttributeError reaches the outer except, which logs, and the update to
\* FAILED is never sent.
MetaTaskDoc(id) ==
    \E t \in metaTasks :
    /\ scope = "meta" /\ t.id = id
    /\ t.pc = "docs"
    /\ IF DocById(t.files[t.i]) = {}
       THEN MetaTaskStep(t, [t EXCEPT !.pc = "doc_missing", !.doc = t.files[t.i]])
       ELSE \E d \in DocById(t.files[t.i]) :
              MetaTaskStep(t, [t EXCEPT !.doc = d.id, !.saw = d.st,
                                 !.i = t.i + 1,
                                 !.err = IF d.st # COMPLETED THEN "AttributeError" ELSE Null,
                                 !.pc = IF d.st # COMPLETED THEN "done"
                                        ELSE IF t.i < Len(t.files) THEN "docs" ELSE "llm"])
    /\ UNCHANGED <<scope, roleMappings, tasks, crVars, docVars, scds, scdTasks, nextId, req>>

\* A document of the list is gone: FAILED with the literal message.
MetaTaskDocMissing(id) ==
    \E t \in metaTasks :
    /\ scope = "meta" /\ t.id = id
    /\ t.pc = "doc_missing"
    /\ metas' = UpdateMeta(t.id, FAILED, "f\"Document {fid} not found\"")
    /\ MetaTaskStep(t, [t EXCEPT !.pc = "done"])
    /\ UNCHANGED <<scope, roleMappings, tasks, crVars, docs, storage, docTasks, scds, scdTasks,
                   nextId, req>>

\* The LLM is called (a blocking call) and the outcome written: COMPLETED
\* with the text, FAILED with str(e) when the call raises or returns no text.
\* With the record gone both updates raise and the outer except logs.
MetaTaskLlm(id) ==
    \E t \in metaTasks :
    /\ scope = "meta" /\ t.id = id
    /\ t.pc = "llm"
    /\ \E o \in {"summary", "error"} :
          /\ metas' = IF o = "summary" THEN UpdateMeta(t.id, COMPLETED, Null)
                                       ELSE UpdateMeta(t.id, FAILED, "llm error")
          /\ MetaTaskStep(t, [t EXCEPT !.pc = "done", !.calls = {"llm"},
                                       !.err = IF o = "summary" THEN Null ELSE "llm error"])
    /\ UNCHANGED <<scope, roleMappings, tasks, crVars, docs, storage, docTasks, scds, scdTasks,
                   nextId, req>>

MetaNext ==
    \/ \E c \in Clients, ids \in MetaRequests : MetaCreateCheck(c, ids)
    \/ \E c \in Clients, id \in Ids : MetaDeleteRead(c, id)
    \/ \E c \in Clients :
          \/ MetaCreateWrite(c)
          \/ MetaDeleteDelete(c)
    \/ \E id \in Ids :
          \/ MetaTaskFetch(id)
          \/ MetaTaskMark(id)
          \/ MetaTaskDoc(id)
          \/ MetaTaskDocMissing(id)
          \/ MetaTaskLlm(id)

(***************************************************************************)
(* POST /state-center-data/upload_documents_background and                 *)
(* DELETE /state-center-data                                               *)
(***************************************************************************)
PdfKinds == {"acbp", "work"}        \* acbp_plan_pdf, work_allocation_pdf

ScdById(id) == {r \in scds : r.id = id}

\* WHERE state_center_id = :s AND department_id IS NULL LIMIT 1
get_by_state_center_and_department(k) == {r \in scds : r.key = k}

NewScd(id, k, files) ==
    [id |-> id, key |-> k, st |-> "processing", err |-> Null, files |-> files, sums |-> {}]

NewScdTask(tid, id, files) ==
    [id |-> tid, key |-> id, pc |-> "start", files |-> files, failed |-> {}, dbfail |-> FALSE,
     err |-> Null]

\* The request is checked and the stored record of the state center read.
ScdUploadRead(c, k, files) ==
    /\ scope = "scd" /\ k \in Keys /\ files \in SUBSET PdfKinds
    /\ c \in Callers /\ req[c] = Idle
    /\ nextId \in Ids /\ nextId < FirstId + JobsAllowed
    /\ IF files = {}
       THEN /\ Respond(c, "scd_upload", 400, "-", {})
            /\ UNCHANGED req
       ELSE /\ req' = [req EXCEPT ![c] = [Idle EXCEPT !.op = "scd_upload", !.pc = "write", !.key = k,
                                 !.snap = {[files |-> files,
                                            rows |-> get_by_state_center_and_department(k)]}]]
            /\ Silent
    /\ UNCHANGED <<scope, roleMappings, tasks, crVars, docVars, bgVars, nextId>>

\* The record is set to "processing", or inserted when there was none; the
\* task is added and 202 returned. The update of a record deleted meanwhile
\* raises, which is answered 500.
ScdUploadWrite(c) ==
    /\ scope = "scd"
    /\ req[c].op = "scd_upload" /\ req[c].pc = "write"
    /\ nextId \in Ids
    /\ nextId' = nextId + 1
    /\ \E s \in req[c].snap :
          IF s.rows = {}
          THEN /\ scds' = scds \cup {NewScd(nextId, req[c].key, s.files)}
               /\ scdTasks' = scdTasks \cup {NewScdTask(nextId, nextId, s.files)}
               /\ Respond(c, "scd_upload", 202, "processing", {})
          ELSE \E e \in s.rows :
                /\ scds' = {IF r.id = e.id
                            THEN [r EXCEPT !.st = "processing", !.err = Null,
                                           !.files = r.files \cup s.files]
                            ELSE r : r \in scds}
                /\ IF ScdById(e.id) = {}
                   THEN /\ Respond(c, "scd_upload", 500, "-", {})
                        /\ UNCHANGED scdTasks
                   ELSE /\ Respond(c, "scd_upload", 202, "processing", {})
                        /\ scdTasks' = scdTasks \cup {NewScdTask(nextId, e.id, s.files)}
    /\ req' = [req EXCEPT ![c] = Idle]
    /\ UNCHANGED <<scope, roleMappings, tasks, crVars, docVars, metaTasks>>

\* type is "acbp_doc" or "work_doc"; the record of the state center is read.
ScdDeleteRead(c, k, kind) ==
    /\ scope = "scd" /\ k \in Keys /\ kind \in PdfKinds
    /\ c \in Callers /\ req[c] = Idle
    /\ IF get_by_state_center_and_department(k) = {}
       THEN /\ Respond(c, "scd_delete", 404, "-", {})
            /\ UNCHANGED req
       ELSE /\ req' = [req EXCEPT ![c] = [Idle EXCEPT !.op = "scd_delete", !.pc = "clear", !.key = k,
                                 !.found = kind,
                                 !.snap = get_by_state_center_and_department(k)]]
            /\ Silent
    /\ UNCHANGED <<scope, roleMappings, tasks, crVars, docVars, bgVars, nextId>>

\* The file name and the summary of the type are cleared.
ScdDeleteClear(c) ==
    /\ scope = "scd"
    /\ req[c].op = "scd_delete" /\ req[c].pc = "clear"
    /\ \E e \in req[c].snap :
          /\ scds' = {IF r.id = e.id
                      THEN [r EXCEPT !.files = r.files \ {req[c].found},
                                     !.sums = r.sums \ {req[c].found}]
                      ELSE r : r \in scds}
          /\ IF ScdById(e.id) = {}
             THEN /\ Respond(c, "scd_delete", 500, "-", {})
                  /\ req' = [req EXCEPT ![c] = Idle]
             ELSE IF \E r \in ScdById(e.id) : r.sums \ {req[c].found} = {}
             THEN /\ Silent
                  /\ req' = [req EXCEPT ![c].pc = "delete", ![c].id = e.id]
             ELSE /\ Respond(c, "scd_delete", 204, "-", {})
                  /\ req' = [req EXCEPT ![c] = Idle]
    /\ UNCHANGED <<scope, roleMappings, tasks, crVars, docVars, metaTasks, scdTasks, nextId>>

\* Both summaries are empty: the record is deleted.
ScdDeleteDelete(c) ==
    /\ scope = "scd"
    /\ req[c].op = "scd_delete" /\ req[c].pc = "delete"
    /\ scds' = scds \ ScdById(req[c].id)
    /\ Respond(c, "scd_delete", 204, "-", {})
    /\ req' = [req EXCEPT ![c] = Idle]
    /\ UNCHANGED <<scope, roleMappings, tasks, crVars, docVars, metaTasks, scdTasks, nextId>>

(***************************************************************************)
(* process_documents_background                                            *)
(***************************************************************************)
\* The task ends by returning ("done") or by an exception that leaves it
\* ("crashed").
ScdTaskStep(t, u) ==
    /\ lastResp' = NoResp
    /\ IF u.pc \in {"done", "crashed"}
       THEN scdTasks' = scdTasks \ {t} /\ ended' = u
       ELSE scdTasks' = (scdTasks \ {t}) \cup {u} /\ ended' = NoTask

\* A statement sent to the store is answered, or raises (connection lost).
StoreAnswers == BOOLEAN

\* The record is read.
ScdTaskFetch(id) ==
    \E t \in scdTasks :
    /\ scope = "scd" /\ t.id = id
    /\ t.pc = "start"
    /\ \E ok \in StoreAnswers :
          ScdTaskStep(t, IF ~ok THEN [t EXCEPT !.pc = "except", !.dbfail = TRUE, !.err = "db error"]
                         ELSE IF ScdById(t.key) = {} THEN [t EXCEPT !.pc = "done"]
                         ELSE [t EXCEPT !.pc = "gather"])
    /\ UNCHANGED <<scope, roleMappings, tasks, crVars, docVars, metaTasks, scds, nextId, req>>

\* gather(..., return_exceptions=True): each summary is made or its call raises.
ScdTaskGather(id) ==
    \E t \in scdTasks :
    /\ scope = "scd" /\ t.id = id
    /\ t.pc = "gather"
    /\ \E failed \in SUBSET t.files : ScdTaskStep(t, [t EXCEPT !.pc = "write", !.failed = failed])
    /\ UNCHANGED <<scope, roleMappings, tasks, crVars, docVars, metaTasks, scds, nextId, req>>

\* success_count > 0 and fail_count == 0, both > 0, or no success.
ScdOutcome(t) ==
    IF t.failed = {} THEN "completed"
    ELSE IF t.failed # t.files THEN "completed_with_errors"
    ELSE "failed"

\* The summaries and the status are written; the update raises when the store
\* fails or the record is gone.
ScdTaskWrite(id) ==
    \E t \in scdTasks :
    /\ scope = "scd" /\ t.id = id
    /\ t.pc = "write"
    /\ \E ok \in StoreAnswers :
          IF ~ok
          THEN /\ ScdTaskStep(t, [t EXCEPT !.pc = "except", !.dbfail = TRUE, !.err = "db error"])
               /\ UNCHANGED scds
          ELSE /\ scds' = {IF r.id = t.key
                           THEN [r EXCEPT !.st = ScdOutcome(t),
                                          !.err = IF t.failed = {} THEN Null ELSE "errors",
                                          !.sums = (r.sums \ t.files) \cup (t.files \ t.failed)]
                           ELSE r : r \in scds}
               /\ ScdTaskStep(t, IF ScdById(t.key) = {} THEN [t EXCEPT !.pc = "except", !.err = "no row"]
                                 ELSE [t EXCEPT !.pc = "done"])
    /\ UNCHANGED <<scope, roleMappings, tasks, crVars, docVars, metaTasks, nextId, req>>

\* The except branch reads the record again, outside any try: an exception
\* of this read leaves the task.
ScdTaskExceptRead(id) ==
    \E t \in scdTasks :
    /\ scope = "scd" /\ t.id = id
    /\ t.pc = "except"
    /\ \E ok \in StoreAnswers :
          ScdTaskStep(t, IF ~ok THEN [t EXCEPT !.pc = "crashed", !.dbfail = TRUE]
                         ELSE IF ScdById(t.key) = {} THEN [t EXCEPT !.pc = "done"]
                         ELSE [t EXCEPT !.pc = "except_write"])
    /\ UNCHANGED <<scope, roleMappings, tasks, crVars, docVars, metaTasks, scds, nextId, req>>

\* The except branch writes "failed" and str(e), outside any try.
ScdTaskExceptWrite(id) ==
    \E t \in scdTasks :
    /\ scope = "scd" /\ t.id = id
    /\ t.pc = "except_write"
    /\ \E ok \in StoreAnswers :
          IF ~ok
          THEN /\ ScdTaskStep(t, [t EXCEPT !.pc = "crashed", !.dbfail = TRUE])
               /\ UNCHANGED scds
          ELSE /\ scds' = {IF r.id = t.key THEN [r EXCEPT !.st = "failed", !.err = t.err] ELSE r :
                             r \in scds}
               /\ ScdTaskStep(t, [t EXCEPT !.pc = IF ScdById(t.key) = {} THEN "crashed" ELSE "done"])
    /\ UNCHANGED <<scope, roleMappings, tasks, crVars, docVars, metaTasks, nextId, req>>

ScdNext ==
    \/ \E c \in Clients, k \in Keys, files \in SUBSET PdfKinds : ScdUploadRead(c, k, files)
    \/ \E c \in Clients, k \in Keys, kind \in PdfKinds : ScdDeleteRead(c, k, kind)
    \/ \E c \in Clients :
          \/ ScdUploadWrite(c)
          \/ ScdDeleteClear(c)
          \/ ScdDeleteDelete(c)
    \/ \E id \in Ids :
          \/ ScdTaskFetch(id)
          \/ ScdTaskGather(id)
          \/ ScdTaskWrite(id)
          \/ ScdTaskExceptRead(id)
          \/ ScdTaskExceptWrite(id)

(***************************************************************************)
(* The runs                                                                *)
(***************************************************************************)
\* Under the "cr" workload the user already has a generated role mapping and
\* a row of suggested courses for it.
CompletedMapping ==
    [id |-> 1, key |-> "K", st |-> COMPLETED, desig |-> 1, sort |-> <<1>>, err |-> Null]

\* Under the "doc" workload the documents DocIds are stored, none summarized,
\* and one completed meta-summary covers them all.
Document(id) ==
    [id |-> id, st |-> NOT_STARTED, text |-> Null, err |-> Null, rid |-> NoRid,
     sc |-> 1, dep |-> 1]

\* Under the "meta" workload document 1 is not summarized and the others are;
\* documents 1 and 2 are of one state center and department, document 3 is of
\* another state center, document 4 of another department.
MetaDocument(id) ==
    [Document(id) EXCEPT !.st = IF id = 1 THEN NOT_STARTED ELSE COMPLETED,
                         !.text = IF id = 1 THEN Null ELSE "summary",
                         !.rid = IF id = 1 THEN NoRid ELSE <<0>>,
                         !.sc = IF id = 3 THEN 2 ELSE 1,
                         !.dep = IF id = 4 THEN 2 ELSE 1]

Init ==
    /\ scope \in RmScopes \cup CrScopes \cup DocScopes \cup {"scd"}
    /\ roleMappings = IF scope \in CrScopes THEN {CompletedMapping} ELSE {}
    /\ tasks = {}
    /\ recs = {}
    /\ suggested = IF scope \in CrScopes THEN {[rm |-> 1, ids |-> <<"a">>]} ELSE {}
    /\ crTasks = {}
    /\ docs = IF scope = "meta" THEN {MetaDocument(i) : i \in MetaDocIds}
              ELSE IF scope = "doc" THEN {Document(i) : i \in DocIds}
              ELSE {}
    /\ metas = IF scope = "doc"
               THEN {[id |-> MetaId, files |-> [i \in 1..Cardinality(DocIds) |-> i],
                      st |-> COMPLETED, err |-> Null]}
               ELSE {}
    /\ storage = IF scope = "meta" THEN MetaDocIds ELSE IF scope = "doc" THEN DocIds ELSE {}
    /\ docTasks = {}
    /\ metaTasks = {}
    /\ scds = {}
    /\ scdTasks = {}
    /\ nextId = FirstId
    /\ req = [c \in Clients |-> Idle]
    /\ lastResp = NoResp
    /\ ended = NoTask

Next == RmNext \/ CrNext \/ DocNext \/ MetaNext \/ ScdNext

Spec == Init /\ [][Next]_vars

\* The steps of the background tasks. Starlette runs each added task after
\* the response is sent, and the event loop resumes every coroutine whose
\* await has completed: while some task can take a step, one is taken. The
\* tasks of a run are finitely many and each ends after finitely many steps,
\* so every task that can take a step eventually does.
RmTaskNext(id) ==
    \/ RmTaskFetch(id)
    \/ RmTaskPass1Raises(id)
    \/ \E n \in AllP1Counts : RmTaskPass1(id, n)
    \/ \E b \in 1..MaxBatches : RmTaskBatch(id, b)
    \/ RmTaskMerge(id)
    \/ RmTaskWriteFailed(id)
    \/ RmTaskWriteFirst(id)
    \/ RmTaskWriteRest(id)
    \/ RmTaskExcept(id)

CrTaskNext(id) ==
    \/ CrTaskFetch(id)
    \/ CrTaskQuery(id)
    \/ CrTaskEmbed(id)
    \/ CrTaskSearch(id)
    \/ CrTaskFilterBranch(id)
    \/ CrTaskGeneralBranch(id)
    \/ CrTaskJoin(id)
    \/ CrTaskMetadata(id)
    \/ CrTaskWrite(id)
    \/ CrTaskExcept(id)

DocTaskNext(id) ==
    \/ DocTaskFetch(id)
    \/ DocTaskMark(id)
    \/ DocTaskFileMissing(id)
    \/ DocTaskLlm(id)
    \/ DocTaskWrite(id)

MetaTaskNext(id) ==
    \/ MetaTaskFetch(id)
    \/ MetaTaskMark(id)
    \/ MetaTaskDoc(id)
    \/ MetaTaskDocMissing(id)
    \/ MetaTaskLlm(id)

ScdTaskNext(id) ==
    \/ ScdTaskFetch(id)
    \/ ScdTaskGather(id)
    \/ ScdTaskWrite(id)
    \/ ScdTaskExceptRead(id)
    \/ ScdTaskExceptWrite(id)

TaskNext ==
    \E id \in Ids :
        RmTaskNext(id) \/ CrTaskNext(id) \/ DocTaskNext(id) \/ MetaTaskNext(id) \/ ScdTaskNext(id)

\* The steps that resume a request handler after one of its awaits.
HandlerNext ==
    \E c \in Clients :
        \/ RmGenerateReadCompleted(c) \/ RmGenerateCleanup(c) \/ RmGenerateCreate(c)
        \/ RmDeleteByIdDelete(c) \/ RmDeleteByKeyDelete(c)
        \/ CrGenerateNone(c) \/ CrGenerateInProgress(c) \/ CrGenerateCompleted(c)
        \/ CrGenerateFailed(c) \/ CrGenerateCreate(c) \/ CrDeleteDelete(c)
        \/ CrDeleteCourseWrite(c) \/ CrDeleteCourseSuggested(c)
        \/ CrDeleteCourseSuggestionWrite(c) \/ CrDeleteCourseUserAdded(c)
        \/ DocTriggerSetRequestId(c) \/ DocTriggerSchedule(c)
        \/ DocDeleteFileMetas(c) \/ DocDeleteFileDelete(c) \/ DocDeleteSummaryReset(c)
        \/ MetaCreateWrite(c) \/ MetaDeleteDelete(c)
        \/ ScdUploadWrite(c) \/ ScdDeleteClear(c) \/ ScdDeleteDelete(c)

FairSpec == Spec /\ WF_vars(TaskNext) /\ WF_vars(HandlerNext)

(***************************************************************************)
(* Properties: job dispatch                                                *)
(***************************************************************************)
InProgressRows(k) == {r \in roleMappings : r.key = k /\ r.st = IN_PROGRESS}

InProgressRecs(rm) == {r \in recs : r.rm = rm /\ r.st = IN_PROGRESS}

\* C1: at every moment of every run, a role-mapping owner key has at most one
\* record IN_PROGRESS and a course-recommendation key (user, role_mapping_id)
\* has at most one record IN_PROGRESS.
C1_AtMostOneInProgress ==
    /\ \A k \in Keys : Cardinality(InProgressRows(k)) <= 1
    /\ \A rm \in RmIds : Cardinality(InProgressRecs(rm)) <= 1

\* C2: a generate request whose lookup finds an IN_PROGRESS record creates no
\* record, schedules no task and answers IN_PROGRESS, and when it returns the
\* key has exactly one IN_PROGRESS record.
C2_InProgressIsAnsweredAsIs ==
    [][\A c \in Clients :
          /\ \A k \in Keys :
                RmGenerateInProgress(c, k) =>
                    /\ roleMappings' = roleMappings /\ tasks' = tasks
                    /\ lastResp'.status = IN_PROGRESS
                    /\ Cardinality(InProgressRows(k)') = 1
          /\ CrGenerateInProgress(c) =>
                /\ recs' = recs /\ crTasks' = crTasks
                /\ lastResp'.status = IN_PROGRESS
                /\ Cardinality(InProgressRecs(req[c].id)') = 1]_vars

\* The key's job is COMPLETED: no task of the key is running and its rows, for a
\* recommendation key its latest record, are COMPLETED.
RmJobCompleted(k) ==
    /\ \A t \in tasks : t.key # k
    /\ \E r \in roleMappings : r.key = k
    /\ \A r \in roleMappings : r.key = k => r.st = COMPLETED

CrJobCompleted(rm) ==
    /\ \A t \in crTasks : t.key # rm
    /\ \E r \in recs :
          /\ r.rm = rm /\ r.st = COMPLETED
          /\ \A o \in recs : o.rm = rm => o.id <= r.id

NothingStored == UNCHANGED <<roleMappings, recs, suggested, tasks, crTasks>>

\* C3: once a key's job is COMPLETED, a generate request or a GET for it changes
\* no record, schedules no task (so no adapter is called) and returns the stored
\* COMPLETED payload, the same payload on every call.
C3_CompletedIsServedFromStore ==
    [][\A c \in Clients :
          /\ \A k \in Keys :
                /\ RmJobCompleted(k) /\ req[c] = Idle /\ req'[c].op = "rm_generate" =>
                      req'[c].found = COMPLETED /\ NothingStored
                /\ RmJobCompleted(k) /\ RmGenerateReadCompleted(c) /\ req[c].key = k =>
                      /\ lastResp'.status = COMPLETED
                      /\ lastResp'.body = {r \in roleMappings : r.key = k}
                      /\ NothingStored
          /\ \A id \in Ids :
                RmGet(c, id) /\ (\E r \in roleMappings : r.id = id /\ RmJobCompleted(r.key)) =>
                    /\ lastResp'.status = COMPLETED
                    /\ lastResp'.body = {r \in roleMappings : r.id = id}
                    /\ NothingStored
          /\ \A rm \in RmIds :
                /\ CrJobCompleted(rm) /\ req[c].op = "cr_generate" /\ req[c].pc = "lookup"
                   /\ req[c].id = rm /\ req'[c] # req[c] =>
                      /\ lastResp'.status = COMPLETED
                      /\ lastResp'.body = {r \in recs : r.rm = rm /\ r.st = COMPLETED}
                      /\ NothingStored
                /\ CrJobCompleted(rm) /\ CrGet(c, rm) =>
                      /\ lastResp'.status = COMPLETED
                      /\ lastResp'.body = {r \in recs : r.rm = rm /\ r.st = COMPLETED}
                      /\ NothingStored]_vars

\* C4: a role-mapping generate request whose lookup found the key's record
\* FAILED deletes every record of the key, then inserts exactly one placeholder,
\* IN_PROGRESS and with an id no deleted or stored record has, and adds exactly
\* one task, bound to that id.
C4_FailedMappingIsReplaced ==
    [][\A c \in Clients :
          /\ RmGenerateCleanup(c) /\ req[c].found = FAILED =>
                \A r \in roleMappings' : r.key # req[c].key
          /\ RmGenerateCreate(c) /\ req[c].found = FAILED =>
                \E p \in roleMappings' \ roleMappings :
                    /\ roleMappings' = roleMappings \cup {p}
                    /\ p.key = req[c].key /\ p.st = IN_PROGRESS
                    /\ p.id \notin {r.id : r \in req[c].snap \cup roleMappings}
                    /\ \E t \in tasks' \ tasks :
                          /\ tasks' = tasks \cup {t}
                          /\ t.id = p.id
                          /\ \A u \in tasks : u.id # p.id]_vars

\* A generate request that found the record FAILED has returned 202: the key
\* holds the new placeholder alone, and the placeholder's task is scheduled.
C4_Witness ==
    /\ lastResp.op = "rm_generate" /\ lastResp.found = FAILED /\ lastResp.code = 202
    /\ \E r \in roleMappings :
          /\ r.id > 1 /\ r.st = IN_PROGRESS
          /\ {o \in roleMappings : o.key = r.key} = {r}
          /\ \E t \in tasks : t.id = r.id /\ t.pc = "start"

\* C5: a course-recommendation generate request whose lookup found the key's
\* record FAILED removes that record: when it returns the key has exactly one
\* record, IN_PROGRESS and with a new id.
C5_FailedRecommendationIsReplaced ==
    [][\A c \in Clients :
          CrGenerateCreate(c) /\ req[c].found = FAILED =>
              /\ \A e \in req[c].snap : e \notin recs'
              /\ \E p \in recs' :
                    /\ {r \in recs' : r.rm = req[c].id} = {p}
                    /\ p.st = IN_PROGRESS
                    /\ p.id \notin {r.id : r \in recs}]_vars

(***************************************************************************)
(* Properties: deletion                                                    *)
(***************************************************************************)
\* The step answers with the code and leaves every table, the file storage and
\* the handlers' positions as they were.
Rejected(code) ==
    /\ lastResp'.code = code
    /\ UNCHANGED <<roleMappings, recs, suggested, docs, metas, storage, req>>

\* C6: a delete handler (role mapping by id or by owner key, course
\* recommendation, document, document summary) that reads its target
\* IN_PROGRESS answers 412, for documents 409, and deletes or changes no
\* record. The recommendation handler deletes the row its query returned: it
\* is rejected, or that row was not IN_PROGRESS when read.
C6_InProgressIsNotDeleted ==
    [][\A c \in Clients :
          /\ \A id \in Ids :
                /\ RmDeleteByIdRead(c, id)
                   /\ (\E r \in roleMappings : r.id = id /\ r.st = IN_PROGRESS) => Rejected(412)
                /\ DocDeleteFileRead(c, id)
                   /\ (\E d \in docs : d.id = id /\ d.st = IN_PROGRESS) => Rejected(409)
                /\ DocDeleteSummaryRead(c, id)
                   /\ (\E d \in docs : d.id = id /\ d.st = IN_PROGRESS) => Rejected(409)
          /\ \A k \in Keys :
                RmDeleteByKeyCheck(c, k) /\ InProgressRows(k) # {} => Rejected(412)
          /\ \A rm \in RmIds :
                CrDeleteRead(c, rm) =>
                    /\ Rejected(412) \/ \A r \in recs : r.id = req'[c].id => r.st # IN_PROGRESS
                    /\ InProgressRecs(rm) # {} /\ InProgressRecs(rm) = {r \in recs : r.rm = rm}
                          => Rejected(412)]_vars

\* A delete by owner key was answered 412 and the key's IN_PROGRESS placeholder
\* is still stored, its task still running.
C6_Witness ==
    /\ lastResp.op = "rm_delete_key" /\ lastResp.code = 412
    /\ \E r \in roleMappings :
          /\ r.st = IN_PROGRESS
          /\ \E t \in tasks : t.id = r.id

Distinct(seq) == \A i, j \in 1..Len(seq) : i # j => seq[i] # seq[j]

\* C7: a delete-course request writing to a COMPLETED record whose
\* filtered_courses has n distinct identifiers, c among them, leaves the n - 1
\* other entries in their order, reports remaining_courses = n - 1, and leaves
\* status COMPLETED and vector_query, embedding and actual_courses as stored.
C7_CourseIsFilteredOut ==
    [][\A c \in Clients :
          CrDeleteCourseWrite(c) =>
              \A e \in recs :
                  (/\ e.id \in {x.id : x \in req[c].snap}
                   /\ e.st = COMPLETED
                   /\ Distinct(e.filtered)
                   /\ InSeq(req[c].course, e.filtered)) =>
                  \E i \in 1..Len(e.filtered), r \in recs' :
                      /\ e.filtered[i] = req[c].course
                      /\ r.id = e.id
                      /\ r.filtered = SubSeq(e.filtered, 1, i - 1)
                                      \o SubSeq(e.filtered, i + 1, Len(e.filtered))
                      /\ Len(r.filtered) = Len(e.filtered) - 1
                      /\ lastResp'.code = 200
                      /\ lastResp'.body = {[remaining_courses |-> Len(e.filtered) - 1]}
                      /\ r.st = COMPLETED
                      /\ r.vq = e.vq /\ r.emb = e.emb /\ r.actual = e.actual]_vars

\* Course "b" was deleted from a COMPLETED record listing a, b, c.
C7_Witness ==
    /\ lastResp.op = "cr_delete_course" /\ lastResp.code = 200
    /\ lastResp.status = "recommendation"
    /\ lastResp.body = {[remaining_courses |-> 2]}
    /\ \E r \in recs :
          /\ r.st = COMPLETED /\ r.filtered = <<"a", "c">>
          /\ r.vq = "q" /\ r.emb = "e" /\ r.actual = <<"a", "b", "c">>

\* C8: a delete-course request whose recommendation record is read IN_PROGRESS
\* is answered 409 and changes no stored data.
C8_InProgressCourseDeleteIsRejected ==
    [][\A c \in Clients :
          req[c].op = "cr_delete_course" /\ req[c].found = IN_PROGRESS /\ req'[c] = Idle =>
              /\ lastResp'.code = 409
              /\ UNCHANGED <<roleMappings, recs, suggested>>]_vars

(***************************************************************************)
(* Properties: the role-mapping pipeline                                   *)
(***************************************************************************)
\* Items the batches before b and batch b itself contribute when only the
\* batches that did not fail count.
RECURSIVE ItemsThrough(_, _)
ItemsThrough(bres, b) ==
    IF b = 0 THEN 0
    ELSE ItemsThrough(bres, b - 1) + (IF Failed(bres[b]) THEN 0 ELSE Len(bres[b].items))

\* result is the items of the batches that did not fail, batch after batch.
IsConcatenation(result, bres) ==
    /\ Len(result) = ItemsThrough(bres, Len(bres))
    /\ \A b \in 1..Len(bres) :
          ~Failed(bres[b]) =>
              \A i \in 1..Len(bres[b].items) :
                  result[ItemsThrough(bres, b - 1) + i] = bres[b].items[i]

\* Some but not all batch calls failed.
PartialFailure(bres) ==
    /\ \E b \in 1..Len(bres) : Failed(bres[b])
    /\ \E b \in 1..Len(bres) : ~Failed(bres[b])

\* The merged result of every task past the merge is the concatenation of its
\* successful batches' items.
MergedIsConcatenation ==
    /\ \A t \in tasks :
          t.pc \in {"merged", "write_rest", "except"} /\ t.p1 = "ok" /\ PartialFailure(t.bres)
              => IsConcatenation(t.result, t.bres)
    /\ scope \in RmScopes /\ ended.pc = "done" /\ ended.p1 = "ok" /\ PartialFailure(ended.bres)
          => IsConcatenation(ended.result, ended.bres)

\* A task whose Pass 2 failed in part has just ended.
EndedAfterPartialFailure ==
    scope \in RmScopes /\ ended.pc = "done" /\ ended.p1 = "ok" /\ PartialFailure(ended.bres)

SummaryStatuses == {<<d.id, d.st>> : d \in docs}

\* C14: a summary trigger that reads the document IN_PROGRESS or COMPLETED
\* answers with the status it read, adds no task and changes no
\* summary_status; one that reads it NOT_STARTED or FAILED goes on to add the
\* summarization task for the document.
C14_TriggerIsIdempotent ==
    [][\A c \in Clients :
          /\ \A id \in Ids, d \in docs :
                DocTriggerRead(c, id) /\ d.id = id =>
                    IF d.st \in {IN_PROGRESS, COMPLETED}
                    THEN /\ docTasks' = docTasks /\ SummaryStatuses' = SummaryStatuses
                         /\ \/ lastResp'.code = 202 /\ lastResp'.status = d.st
                            \/ req'[c].pc = "set_rid" /\ req'[c].snap = {d}
                    ELSE req'[c].pc = "schedule" /\ req'[c].id = id
          /\ DocTriggerSetRequestId(c) =>
                /\ docTasks' = docTasks /\ SummaryStatuses' = SummaryStatuses
                /\ lastResp'.code = 202 => \E d \in req[c].snap : lastResp'.status = d.st
          /\ DocTriggerSchedule(c) /\ (\E d \in docs : d.id = req[c].id) =>
                /\ lastResp'.code = 202
                /\ \E t \in docTasks' \ docTasks :
                      docTasks' = docTasks \cup {t} /\ t.key = req[c].id /\ t.pc = "start"]_vars

\* A trigger for a document whose summary is COMPLETED was answered COMPLETED,
\* and no task is scheduled.
C14_Witness ==
    /\ lastResp.op = "doc_trigger" /\ lastResp.code = 202 /\ lastResp.status = COMPLETED
    /\ docTasks = {}
    /\ \E d \in docs : d.st = COMPLETED /\ d.rid # NoRid

(***************************************************************************)
(* Properties: Pass 1 succeeded                                            *)
(***************************************************************************)
\* A task whose Pass 1 returned at least one designation has just ended.
EndedAfterPass1 == scope \in RmScopes /\ ended.pc = "done" /\ ended.p1 = "ok"

\* Some batch call returned an array with an item.
SomeBatchItem(bres) ==
    \E b \in 1..Len(bres) : bres[b].kind = "list" /\ bres[b].items # <<>>

AfterEmbedding == {"vector_search", "filter", "general", "metadata"}

\* C13: when the embedding adapter returns an empty list, the task raises
\* "Failed to generate embeddings": neither the vector search nor any later
\* adapter is called, and the record ends FAILED with that message.
C13_EmptyEmbeddingFailsTheJob ==
    /\ \A t \in crTasks : t.err = EmbeddingMsg => t.calls \cap AfterEmbedding = {}
    /\ scope \in CrScopes /\ ended.pc = "done" /\ ended.err = EmbeddingMsg =>
          /\ ended.calls = {"vector_query", "embedding"}
          /\ \A r \in recs : r.id = ended.id => r.st = FAILED /\ r.err = EmbeddingMsg

\* The embedding came back empty and the task has ended: the record is FAILED
\* with the embeddings message.
C13_Witness ==
    /\ scope \in CrScopes /\ ended.pc = "done" /\ ended.err = EmbeddingMsg
    /\ \E r \in recs : r.id = ended.id /\ r.st = FAILED /\ r.err = EmbeddingMsg

\* C20: in every fan-out the pipeline goes on only when all branches have
\* finished, and a failed branch contributes an empty result: it neither fails
\* the job nor discards what the other branch returned.
C20_FanOutWaitsAndIsolates ==
    /\ \A t \in tasks :
          t.pc \in {"merged", "write_rest", "except"} /\ t.p1 = "ok" =>
              /\ \A b \in 1..Len(t.bres) : t.bres[b] # Pending
              /\ IsConcatenation(t.result, t.bres)
    /\ \A t \in crTasks :
          "filter" \in t.calls /\ t.pc # "fanout" => t.filt # Pending /\ t.gen # Running
    /\ scope \in CrScopes /\ ended.pc = "done" /\ "filter" \in ended.calls
       /\ ended.filt.kind # "json" /\ ended.gen # Running /\ "metadata" \notin ended.calls =>
          \A r \in recs : r.id = ended.id => r.st = COMPLETED /\ r.filtered = ended.gen

(***************************************************************************)
(* Properties: meta-summaries                                              *)
(***************************************************************************)
\* The step just taken ended a meta-summary task.
EndedMeta == scope = "meta" /\ "saw" \in DOMAIN ended

\* C11: a meta-summary task that finds a referenced document not COMPLETED
\* ends with the record FAILED and an error message, the LLM not called.
C11_UnsummarisedDocumentFailsTheJob ==
    EndedMeta /\ ended.pc = "done" /\ ended.saw \notin {Null, COMPLETED} =>
        /\ "llm" \notin ended.calls
        /\ \A m \in MetaById(ended.id) : m.st = FAILED /\ m.err # Null

BadMetaRequest(ids) ==
    \/ NoFileIds(ids) \/ SomeFileMissing(ids)
    \/ SeveralStateCenters(ids) \/ SeveralDepartments(ids)

\* C15: a create request with no file id, a missing document, or documents of
\* several state centers or departments is answered 400; no record is stored
\* and no task scheduled.
C15_BadMetaRequestIsRejected ==
    [][\A c \in Clients, ids \in MetaRequests :
          MetaCreateCheck(c, ids) /\ BadMetaRequest(ids) =>
              /\ lastResp'.code = 400
              /\ UNCHANGED <<metas, metaTasks>>]_vars

\* C12: when the meta-summary task finds a document NOT_STARTED or FAILED, the
\* summary of that document is started: the document leaves NOT_STARTED and
\* FAILED with no further request.
C12_UnsummarisedDocumentIsStarted ==
    \A d \in MetaDocIds :
        (EndedMeta /\ ended.doc = d /\ ended.saw \in {NOT_STARTED, FAILED})
            ~> (\A x \in DocById(d) : x.st \notin {NOT_STARTED, FAILED})

(***************************************************************************)
(* Properties: every background task                                       *)
(***************************************************************************)
\* The job of each kind whose task has been added and not yet started.
RmScheduled(id) == \E t \in tasks : t.id = id /\ t.pc = "start"

CrScheduled(id) == \E t \in crTasks : t.id = id /\ t.pc = "start"

DocScheduled(id) == \E t \in docTasks : t.key = id /\ t.pc = "start"

MetaScheduled(id) == \E t \in metaTasks : t.id = id /\ t.pc = "start"

ScdScheduled(tid, id) == \E t \in scdTasks : t.id = tid /\ t.key = id /\ t.pc = "start"

Terminal == {COMPLETED, FAILED}

\* A store failure hit the state-center task tid, which has just ended.
StoreFailed(tid) == scope = "scd" /\ ended.pc \in {"done", "crashed"} /\ ended.id = tid /\ ended.dbfail

C16_RmJobEnds == \A id \in Ids : RmScheduled(id) ~> (\A r \in RowById(id) : r.st \in Terminal)

C16_CrJobEnds == \A id \in Ids : CrScheduled(id) ~> (\A r \in RecById(id) : r.st \in Terminal)

C16_DocJobEnds == \A id \in Ids : DocScheduled(id) ~> (\A d \in DocById(id) : d.st \in Terminal)

C16_MetaJobEnds == \A id \in Ids : MetaScheduled(id) ~> (\A m \in MetaById(id) : m.st \in Terminal)

C16_ScdJobEnds ==
    \A tid \in Ids, id \in Ids :
        ScdScheduled(tid, id) ~>
            \/ \A r \in ScdById(id) : r.st \in {"completed", "completed_with_errors", "failed"}
            \/ StoreFailed(tid)

\* C16: every job record whose task was scheduled reaches COMPLETED or FAILED
\* (or is deleted), as long as the store answers the task's statements.
C16_EveryJobEnds ==
    C16_RmJobEnds /\ C16_CrJobEnds /\ C16_DocJobEnds /\ C16_MetaJobEnds /\ C16_ScdJobEnds

\* C17: no background task ends by an exception that leaves it.
C17_NoTaskEndsByException == ended.pc # "crashed"

\* The step just taken ended a document-summary task.
EndedDoc == scope \in DocScopes /\ "out" \in DOMAIN ended

\* C18: when an external call of a task raises, the job ends FAILED and its
\* error_message carries the text of the raised error; for role mappings,
\* course recommendations, document summaries and meta-summaries.
C18_RaisedErrorIsRecorded ==
    /\ scope \in RmScopes /\ ended.pc = "done" /\ ended.err # Null =>
          \A r \in RowById(ended.id) : r.st = FAILED /\ r.err = ended.err
    /\ scope \in CrScopes /\ ended.pc = "done" /\ ended.err # Null =>
          \A r \in RecById(ended.id) : r.st = FAILED /\ r.err = ended.err
    /\ EndedDoc /\ ended.pc = "done" /\ ended.out = "error" =>
          \A d \in DocById(ended.key) : d.st = FAILED /\ d.err = "str(e)"
    /\ EndedMeta /\ ended.pc = "done" /\ ended.err = "llm error" =>
          \A m \in MetaById(ended.id) : m.st = FAILED /\ m.err = ended.err

(***************************************************************************)
(* Properties: the status of a job record                                  *)
(***************************************************************************)
\* C21: a document or meta-summary record is given a terminal status only
\* while its stored status is IN_PROGRESS.
C21_TerminalOnlyFromInProgress ==
    [][/\ \A d \in docs, e \in docs' :
             d.id = e.id /\ e.st \in Terminal /\ e.st # d.st => d.st = IN_PROGRESS
       /\ \A m \in metas, n \in metas' :
             m.id = n.id /\ n.st \in Terminal /\ n.st # m.st => m.st = IN_PROGRESS]_vars

\* C24: the error field of a job record is non-null only when its status is
\* FAILED.
C24_ErrorOnlyOnFailed ==
    /\ \A r \in roleMappings : r.err # Null => r.st = FAILED
    /\ \A r \in recs : r.err # Null => r.st = FAILED
    /\ \A d \in docs : d.err # Null => d.st = FAILED
    /\ \A m \in metas : m.err # Null => m.st = FAILED
    /\ \A r \in scds : r.err # Null => r.st = "failed"

Earlier == {NOT_STARTED, PENDING, IN_PROGRESS, "processing"}

Ended == Terminal \cup {"completed", "completed_with_errors", "failed"}

\* A step moves a record of the table from an ended status back to an earlier one.
MovesBack(old, new) ==
    \E r \in old, q \in new : r.id = q.id /\ r.st \in Ended /\ q.st \in Earlier

\* C23: no step moves an existing job record from COMPLETED or FAILED back to
\* NOT_STARTED, PENDING or IN_PROGRESS.
C23_StatusMovesForward ==
    [][/\ ~MovesBack(roleMappings, roleMappings')
       /\ ~MovesBack(recs, recs')
       /\ ~MovesBack(docs, docs')
       /\ ~MovesBack(metas, metas')
       /\ ~MovesBack(scds, scds')]_vars

\* The records of a table that are IN_PROGRESS are left as they are.
KeepsInProgress(old, new) == \A r \in old : r.st = IN_PROGRESS => r \in new

\* The step is one of a request handler: it changes the handler's locals or
\* sends a response.
HandlerStep == req' # req \/ lastResp' # NoResp

\* C25: no request handler deletes or modifies a job record that is
\* IN_PROGRESS, and a delete request for an IN_PROGRESS meta-summary is
\* answered 409.
C25_InProgressIsLeftAlone ==
    [][/\ HandlerStep =>
             /\ KeepsInProgress(roleMappings, roleMappings')
             /\ KeepsInProgress(recs, recs')
             /\ KeepsInProgress(docs, docs')
             /\ KeepsInProgress(metas, metas')
       /\ \A c \in Clients, id \in Ids :
             MetaDeleteRead(c, id) /\ (\E m \in MetaById(id) : m.st = IN_PROGRESS) =>
                 lastResp'.code = 409]_vars

C22_NoSecondDispatch ==
    [][ /\ \A m \in metas' :
              m.id \notin {o.id : o \in metas} =>
                  ~\E o \in metas : o.files = m.files /\ o.st \in {PENDING, IN_PROGRESS}
        /\ \A t \in scdTasks' :
              t.id \notin {u.id : u \in scdTasks} =>
                  ~\E r \in scds : r.id = t.key /\ r.st = "processing" ]_vars

PastStatusCheck(id) ==
    {t \in docTasks : t.key = id /\ t.pc \in {"mark", "file_missing", "llm", "write"}}

C29_OneSummaryRunPerDocument ==
    /\ [](\A id \in Ids : Cardinality(PastStatusCheck(id)) <= 1)
    /\ [][\A tid \in Ids :
            DocTaskWrite(tid) \/ DocTaskFileMissing(tid) =>
                \A t \in docTasks : t.id = tid =>
                    \A d \in DocById(t.key) : d.st # COMPLETED]_vars

\* The meta summary id is PENDING.
MetaPending(id) == \E m \in MetaById(id) : m.st = PENDING

\* C30: every meta summary that is PENDING, also one reset to PENDING because
\* a document it refers to was deleted, eventually leaves PENDING.
C30_PendingMetaIsProcessed == \A id \in Ids : MetaPending(id) ~> ~MetaPending(id)

(***************************************************************************)
(* Properties: Pass 2 batching                                             *)
(***************************************************************************)
CeilDiv(n, size) == (n + size - 1) \div size

\* The number of items in the results of the batches before batch b.
RECURSIVE ItemsBefore(_, _)
ItemsBefore(bres, b) ==
    IF b <= 1 THEN 0 ELSE ItemsBefore(bres, b - 1) + Len(bres[b - 1].items)

\* The tasks whose Pass 1 returned designations.
Pass2Tasks == {t \in tasks : t.p1 = "ok"}

====
